---- MODULE Spec2Model ----
(***************************************************************************)
(* The LightX face-swap client (class FaceSwapAPI): image validation,      *)
(* upload negotiation, job submission and status polling, with the         *)
(* process-wide statistics it keeps.                                       *)
(*                                                                         *)
(* Conventions                                                             *)
(*  - A content type is a sequence of tokens, "image/jpeg" being           *)
(*    <<"image/", "jpeg">>; String.includes(w) is membership of w among    *)
(*    the tokens (no token of the alphabet used here straddles two         *)
(*    others).                                                             *)
(*  - A buffer is [len, head]: its length and its first min(len, 4) bytes. *)
(*  - Waits handed to setTimeout are kept in tenths of a millisecond, so   *)
(*    that 3000 * 1.2^4 = 6220.8 ms is the integer 62208. Elapsed time     *)
(*    (Date.now() differences) is in whole milliseconds.                   *)
(*  - An await of response.text() / response.json() / response.buffer()    *)
(*    is folded into the arrival of the response: the handler changes no   *)
(*    state and issues no call between the two.                            *)
(***************************************************************************)
EXTENDS Integers, Sequences, FiniteSets, TLC

VARIABLES
    stats,   \* this.stats
    jpc,     \* job -> position of performFaceSwap
    jout,    \* job -> how performFaceSwap settled: value or error
    img,     \* job -> side -> the processImage call of that side
    calls,   \* job -> number of calls issued, per endpoint (history)
    poll,    \* job -> the locals of pollFaceSwapStatus, with its log (history)
    hist,    \* elapsed times recorded by successful polls since the last reset (history)
    vin,     \* input of a stand-alone _validateImageBuffer call
    vout,    \* its result
    config,  \* this.LIGHTX_API_KEY, this.LIGHTX_BASE_URL
    ret,     \* what the last isConfigured / testConnection call returned
    sub,     \* the handleSubmission call of one POST /submit request
    limiter, \* rateLimitMap, the clock, and what the rateLimit middleware decided (history)
    admin    \* the submissions collection, the image host, the DELETE requests

vars == <<stats, jpc, jout, img, calls, poll, hist, vin, vout, config, ret, sub,
          limiter, admin>>

\* what the client's own calls neither read nor write
client == <<vin, vout, config, ret>>

\* what a performFaceSwap call neither reads nor writes
\* the router's own state
router == <<limiter, admin>>

aside == <<client, sub, router>>

\* what the rateLimit middleware and the admin handlers neither read nor write
app == <<stats, jpc, jout, img, calls, poll, hist, client, sub>>

----------------------------------------------------------------------------
(* Bounds of the model *)

\* response latencies range over 1..MaxLat milliseconds
MaxLat == 1
\* buffer lengths within Delta of each size limit are enumerated
Delta == 1

----------------------------------------------------------------------------
(* Constants of the constructor *)

MAX_RETRIES == 5
POLL_INTERVAL == 3000
MAX_FILE_SIZE == 5 * 1024 * 1024
MIN_FILE_SIZE == 1024
SUPPORTED_FORMATS == { <<"image/", "jpeg">>, <<"image/", "jpg">>, <<"image/", "png">> }

None == "none"

Min(a, b) == IF a < b THEN a ELSE b

RECURSIVE Pow(_, _)
Pow(b, e) == IF e = 0 THEN 1 ELSE b * Pow(b, e - 1)

----------------------------------------------------------------------------
(* Image validation *)

\* String.prototype.includes on a content type
Includes(contentType, word) == \E i \in DOMAIN contentType : contentType[i] = word

\* buffer[i]; reading past the end gives undefined, which equals no byte
ByteAt(buffer, i) == IF i < Len(buffer.head) THEN buffer.head[i + 1] ELSE -1

IsJpegSig(buffer) ==
    ByteAt(buffer, 0) = 255 /\ ByteAt(buffer, 1) = 216 /\ ByteAt(buffer, 2) = 255

IsPngSig(buffer) ==
    /\ ByteAt(buffer, 0) = 137 /\ ByteAt(buffer, 1) = 80
    /\ ByteAt(buffer, 2) = 78 /\ ByteAt(buffer, 3) = 71

\* variant: either signature accepted whatever the declared type
_isValidImageBuffer_AnySignature(buffer, contentType) ==
    buffer.len >= 4 /\ (IsJpegSig(buffer) \/ IsPngSig(buffer))

_isValidImageBuffer(buffer, contentType) ==
    IF buffer.len < 4 THEN FALSE
    ELSE IF Includes(contentType, "jpeg") \/ Includes(contentType, "jpg")
         THEN IsJpegSig(buffer)
    ELSE IF Includes(contentType, "png") THEN IsPngSig(buffer)
    ELSE IsJpegSig(buffer) \/ IsPngSig(buffer)

OversizeErrors(len) == IF len > MAX_FILE_SIZE THEN <<"oversize">> ELSE << >>

\* variant: the lower limit taken inclusive
UndersizeErrors_Inclusive(len) == IF len <= MIN_FILE_SIZE THEN <<"undersize">> ELSE << >>

UndersizeErrors(len) == IF len < MIN_FILE_SIZE THEN <<"undersize">> ELSE << >>

\* variant: any image/* content type taken as supported
FormatErrors_AnyImage(contentType) ==
    IF Len(contentType) = 0 \/ contentType[1] # "image/" THEN <<"unsupported">> ELSE << >>

FormatErrors(contentType) ==
    IF contentType \notin SUPPORTED_FORMATS THEN <<"unsupported">> ELSE << >>

SignatureErrors(buffer, contentType) ==
    IF ~_isValidImageBuffer(buffer, contentType) THEN <<"corrupt">> ELSE << >>

\* variant: the first violated check ends the validation
_validateImageBuffer_FailFast(imageBuffer, contentType) ==
    LET errors == OversizeErrors(imageBuffer.len) \o UndersizeErrors(imageBuffer.len)
                    \o FormatErrors(contentType)
                    \o SignatureErrors(imageBuffer, contentType)
    IN  [isValid |-> Len(errors) = 0,
         errors |-> IF Len(errors) = 0 THEN errors ELSE <<Head(errors)>>]

_validateImageBuffer(imageBuffer, contentType) ==
    LET errors == OversizeErrors(imageBuffer.len) \o UndersizeErrors(imageBuffer.len)
                    \o FormatErrors(contentType)
                    \o SignatureErrors(imageBuffer, contentType)
    IN  [isValid |-> Len(errors) = 0, errors |-> errors]

----------------------------------------------------------------------------
(* Errors: an Error object is its message template (kind) and the variable *)
(* part of the message that later code inspects (detail): the validation   *)
(* errors, the message of the status envelope, the URL fetch could not     *)
(* reach.                                                                  *)

Err(kind) == [kind |-> kind, detail |-> << >>]

NoError == Err(None)

\* `Image validation failed: ${validation.errors.join(", ")}`
ValidationError(errors) == [kind |-> "E_VALIDATION", detail |-> errors]

\* response.ok
Ok(response) == response.http \in 200..299

----------------------------------------------------------------------------
(* Statistics *)

RECURSIVE GCD(_, _)
GCD(a, b) == IF b = 0 THEN a ELSE GCD(b, a % b)

\* the rational num/den in lowest terms
Rat(num, den) == LET g == GCD(num, den) IN [num |-> num \div g, den |-> den \div g]

InitialStats ==
    [totalRequests |-> 0, successfulSwaps |-> 0, failedSwaps |-> 0,
     averageProcessingTime |-> Rat(0, 1)]

\* variant: the total recomputed from the jobs that have finished, plus this one
IncTotalRequests_FromFinished(st) ==
    [st EXCEPT !.totalRequests = st.successfulSwaps + st.failedSwaps + 1]

IncTotalRequests(st) == [st EXCEPT !.totalRequests = @ + 1]

IncFailedSwaps(st) == [st EXCEPT !.failedSwaps = @ + 1]

\* variant: the count before the increment weighted, the count after it plus one dividing
NewAverage_Stale(avg, successfulSwaps, totalTime) ==
    Rat(avg.num * successfulSwaps + totalTime * avg.den, avg.den * (successfulSwaps + 1))

\* variant: from the second success on, the mean of the old average and the new time
NewAverage_Unweighted(avg, successfulSwaps, totalTime) ==
    IF successfulSwaps = 1 THEN Rat(totalTime, 1)
    ELSE Rat(avg.num + totalTime * avg.den, avg.den * 2)

\* (averageProcessingTime * (successfulSwaps - 1) + totalTime) / successfulSwaps,
\* successfulSwaps being the count already incremented
NewAverage(avg, successfulSwaps, totalTime) ==
    Rat(avg.num * (successfulSwaps - 1) + totalTime * avg.den, avg.den * successfulSwaps)

RecordSuccess(st, totalTime) ==
    LET n == st.successfulSwaps + 1
    IN  [st EXCEPT !.successfulSwaps = n,
                   !.averageProcessingTime = NewAverage(@, n, totalTime)]

----------------------------------------------------------------------------
(* pollFaceSwapStatus: one pass of the loop body on a response.            *)
(* A pass ends in one of: "return" (output), "throw" (error), "sleep"      *)
(* (wait, in tenths of a ms, then the next pass) or "next" (the next pass  *)
(* at once).                                                               *)

Tenths(ms) == ms * 10

\* variant: the exponential wait without its cap
HttpFailWait_Uncapped(attempt) ==
    (Tenths(POLL_INTERVAL) * Pow(3, attempt)) \div Pow(2, attempt)

\* Math.min(POLL_INTERVAL * Math.pow(1.5, attempt), 10000)
HttpFailWait(attempt) ==
    Min((Tenths(POLL_INTERVAL) * Pow(3, attempt)) \div Pow(2, attempt), Tenths(10000))

\* variant: the catch block waits on the HTTP-failure curve
CatchWait_HttpCurve(attempt) == HttpFailWait(attempt)

\* Math.min(POLL_INTERVAL * Math.pow(1.2, attempt), 8000)
CatchWait(attempt) ==
    Min((Tenths(POLL_INTERVAL) * Pow(6, attempt)) \div Pow(5, attempt), Tenths(8000))

PollIntervalWait == Tenths(POLL_INTERVAL)

Pass(kind, st, output, error, wait) ==
    [kind |-> kind, stats |-> st, output |-> output, error |-> error, wait |-> wait]

\* error.message.includes("Face swap failed during processing")
IsProcessingFailedMessage(error) ==
    \/ error.kind = "E_PROCESSING_FAILED"
    \/ error.kind = "E_STATUS_CHECK" /\ Includes(error.detail, "Face swap failed during processing")

\* `Status check error: ${data.message || "Unknown error"}`
StatusCheckError(response) ==
    [kind |-> "E_STATUS_CHECK",
     detail |-> IF response.message = << >> THEN <<"Unknown error">> ELSE response.message]

\* the branch taken when !response.ok
HttpFailure(st, attempt) ==
    IF attempt = MAX_RETRIES
    THEN Pass("throw", st, None, Err("E_POLL_HTTP_FAILED"), 0)
    ELSE Pass("sleep", st, None, NoError, HttpFailWait(attempt))

\* the branch taken when status === "init"
InitStatus(st, attempt) ==
    IF attempt < MAX_RETRIES
    THEN Pass("sleep", st, None, NoError, PollIntervalWait)
    ELSE Pass("next", st, None, NoError, 0)

\* variant: a status that is not recognised ends the job as failed
UnknownStatus_Terminal(st, attempt) ==
    Pass("throw", IncFailedSwaps(st), None, Err("E_PROCESSING_FAILED"), 0)

\* the final else branch: any other status
UnknownStatus(st, attempt) == Pass("sleep", st, None, NoError, PollIntervalWait)

\* the branch taken when status === "failed"
FailedStatus(st) ==
    Pass("throw", IncFailedSwaps(st), None, Err("E_PROCESSING_FAILED"), 0)

\* the branch taken when status === "active" && data.body?.output
ActiveStatus(st, totalTime, output) ==
    Pass("return", RecordSuccess(st, totalTime), output, NoError, 0)

\* variant: `active` returned without looking at the output
PollTry_ActiveWithoutOutput(st, attempt, totalTime, response) ==
    IF response.name # None THEN Pass("throw", st, None, Err(response.name), 0)
    ELSE IF ~Ok(response) THEN HttpFailure(st, attempt)
    ELSE IF response.statusCode = 2000
         THEN IF response.status = "active"
              THEN ActiveStatus(st, totalTime, response.output)
              ELSE IF response.status = "failed" THEN FailedStatus(st)
              ELSE IF response.status = "init" THEN InitStatus(st, attempt)
              ELSE UnknownStatus(st, attempt)
    ELSE Pass("throw", st, None, StatusCheckError(response), 0)

\* the try block
PollTry(st, attempt, totalTime, response) ==
    IF response.name # None THEN Pass("throw", st, None, Err(response.name), 0)
    ELSE IF ~Ok(response) THEN HttpFailure(st, attempt)
    ELSE IF response.statusCode = 2000
         THEN IF response.status = "active" /\ response.output # ""
              THEN ActiveStatus(st, totalTime, response.output)
              ELSE IF response.status = "failed" THEN FailedStatus(st)
              ELSE IF response.status = "init" THEN InitStatus(st, attempt)
              ELSE UnknownStatus(st, attempt)
    ELSE Pass("throw", st, None, StatusCheckError(response), 0)

\* variant: the catch block rethrows on the last attempt only
PollRethrows_LastOnly(attempt, error) == attempt = MAX_RETRIES

\* the condition under which the catch block rethrows
PollRethrows(attempt, error) ==
    attempt = MAX_RETRIES \/ IsProcessingFailedMessage(error)

\* the catch block, applied to what the try block did
PollCatch(pass, attempt) ==
    IF pass.kind # "throw" THEN pass
    ELSE IF PollRethrows(attempt, pass.error) THEN pass
    ELSE Pass("sleep", pass.stats, None, NoError, CatchWait(attempt))

PollPass(st, attempt, totalTime, response) ==
    PollCatch(PollTry(st, attempt, totalTime, response), attempt)

\* after the loop: this.stats.failedSwaps++ and the exhaustion error
PollExhausted(st) ==
    Pass("throw", IncFailedSwaps(st), None, Err("E_POLL_EXHAUSTED"), 0)

\* a timer of `wait` tenths of a millisecond fires after this many whole ms
TimerMs(wait) == (wait + 9) \div 10

----------------------------------------------------------------------------
(* The environment: what the remote service, the image host and the local  *)
(* disk may answer. A response that was thrown instead of delivered has a  *)
(* name ("AbortError" for the per-call timeout, "FetchError" for a         *)
(* transport failure); a delivered one has name None.                      *)

Jobs == {"j1", "j2", "j3"}
Sides == {"source", "target"}
Other(side) == IF side = "source" THEN "target" ELSE "source"

Latencies == 1 .. MaxLat

JpegHead == <<255, 216, 255, 224>>
PngHead == <<137, 80, 78, 71>>
GifHead == <<71, 73, 70, 56>>

Buffer(len, head) == [len |-> len, head |-> SubSeq(head, 1, Min(len, Len(head)))]

NoBuffer == Buffer(0, << >>)

ImageJpeg == <<"image/", "jpeg">>
ImagePng == <<"image/", "png">>
ImageGif == <<"image/", "gif">>
NoContentType == << >>

\* the local disk: path -> extension, existence and content
LocalFiles ==
    { [path |-> "face.jpg", ext |-> ".jpg", exists |-> TRUE,
        buffer |-> Buffer(50 * 1024, JpegHead)],
      [path |-> "style.png", ext |-> ".png", exists |-> TRUE,
        buffer |-> Buffer(80 * 1024, PngHead)],
      [path |-> "tiny.png", ext |-> ".png", exists |-> TRUE,
        buffer |-> Buffer(500, PngHead)],
      [path |-> "anim.gif", ext |-> ".gif", exists |-> TRUE,
        buffer |-> Buffer(50 * 1024, GifHead)],
      [path |-> "gone.jpg", ext |-> ".jpg", exists |-> FALSE,
        buffer |-> NoBuffer] }

\* the arguments (image, isUrl) performFaceSwap is called with
ImageSources ==
    { [isUrl |-> FALSE, file |-> f] : f \in LocalFiles }
    \cup { [isUrl |-> TRUE, file |-> [path |-> "https://host/img", ext |-> "", exists |-> TRUE,
                                       buffer |-> NoBuffer]] }

\* answers to the GET of an image URL: status, content-type header, body
ImageResponses ==
    { [name |-> n, http |-> 0, contentType |-> NoContentType, buffer |-> NoBuffer]
        : n \in {"AbortError", "FetchError"} }
    \cup { [name |-> None, http |-> 404, contentType |-> NoContentType, buffer |-> NoBuffer] }
    \cup { [name |-> None, http |-> 200, contentType |-> c[1], buffer |-> c[2]] :
            c \in { <<ImageJpeg, Buffer(50 * 1024, JpegHead)>>,
                    <<ImagePng, Buffer(80 * 1024, PngHead)>>,
                    <<NoContentType, Buffer(50 * 1024, JpegHead)>>,
                    <<ImagePng, Buffer(500, PngHead)>>,
                    <<ImagePng, Buffer(50 * 1024, JpegHead)>>,
                    <<ImageGif, Buffer(50 * 1024, GifHead)>>,
                    <<ImageJpeg, Buffer(MAX_FILE_SIZE + 1, JpegHead)>> } }

\* answers to POST /v2/uploadImageUrl: the envelope {statusCode, body:{uploadImage, imageUrl}}
UploadUrlResponses ==
    { [name |-> n, http |-> 0, statusCode |-> 0, uploadImage |-> FALSE, imageUrl |-> FALSE]
        : n \in {"AbortError", "FetchError"} }
    \cup { [name |-> None, http |-> h, statusCode |-> 0, uploadImage |-> FALSE, imageUrl |-> FALSE]
        : h \in {403, 429, 402, 500} }
    \cup { [name |-> None, http |-> 200, statusCode |-> c[1], uploadImage |-> c[2], imageUrl |-> c[3]]
        : c \in { <<2000, TRUE, TRUE>>, <<5000, TRUE, TRUE>>,
                  <<2000, FALSE, TRUE>>, <<2000, TRUE, FALSE>> } }

\* answers to the PUT of the bytes
PutResponses ==
    { [name |-> n, http |-> 0] : n \in {"AbortError", "FetchError"} }
    \cup { [name |-> None, http |-> h] : h \in {200, 403} }

\* answers to POST /v1/face-swap: the envelope {statusCode, body:{orderId}}
SwapResponses ==
    { [name |-> n, http |-> 0, statusCode |-> 0, orderId |-> ""]
        : n \in {"AbortError", "FetchError"} }
    \cup { [name |-> None, http |-> h, statusCode |-> 0, orderId |-> ""]
        : h \in {403, 402, 400, 500} }
    \cup { [name |-> None, http |-> 200, statusCode |-> c[1], orderId |-> c[2]]
        : c \in { <<2000, "order">>, <<5000, "order">>, <<2000, "">> } }

\* answers to POST /v1/order-status: the envelope {statusCode, message, body:{status, output}}
StatusResponses ==
    { [name |-> "AbortError", http |-> 0, statusCode |-> 0, status |-> "", output |-> "",
       message |-> << >>] }
    \cup { [name |-> None, http |-> 500, statusCode |-> 0, status |-> "", output |-> "",
            message |-> << >>] }
    \cup { [name |-> None, http |-> 200, statusCode |-> 5000, status |-> "", output |-> "",
            message |-> m] : m \in { << >>, <<"Face swap failed during processing">> } }
    \cup { [name |-> None, http |-> 200, statusCode |-> 2000, status |-> c[1], output |-> c[2],
            message |-> << >>]
            : c \in { <<"init", "">>, <<"queued", "">>, <<"active", "">>,
                      <<"active", "https://cdn/out.jpg">>, <<"failed", "">> } }

----------------------------------------------------------------------------
(* processImage, getUploadUrl, uploadImageToS3: one pipeline per image.    *)
(* pc: "idle", "fetch" (GET of the image in flight), "urlreq" (POST        *)
(* /v2/uploadImageUrl in flight), "put" (PUT of the bytes in flight),      *)
(* "done" (resolved with imageUrl), "failed" (rejected with error).        *)
(* acquisitions, validations, urlRequests, puts count what the call did;   *)
(* putTarget is the URL its PUT was sent to.                               *)

NoUrl == << >>

IdlePipeline ==
    [pc |-> "idle", buffer |-> NoBuffer, contentType |-> NoContentType,
     uploadUrl |-> NoUrl, imageUrl |-> NoUrl, putTarget |-> NoUrl, error |-> NoError,
     acquisitions |-> 0, validations |-> 0, urlRequests |-> 0, puts |-> 0]

\* a settled processImage call keeps none of its locals
PipelineRejects(p, error) ==
    [p EXCEPT !.pc = "failed", !.error = error, !.buffer = NoBuffer,
              !.contentType = NoContentType]

\* variant: the upload-URL request issued before the validation result is looked at
GetUploadUrlCall_RequestFirst(p, imageBuffer, contentType) ==
    LET validation == _validateImageBuffer(imageBuffer, contentType)
        q == [p EXCEPT !.validations = @ + 1, !.buffer = imageBuffer,
                       !.contentType = contentType, !.urlRequests = @ + 1]
    IN  IF ~validation.isValid
        THEN PipelineRejects(q, ValidationError(validation.errors))
        ELSE [q EXCEPT !.pc = "urlreq"]

\* getUploadUrl up to its fetch: validate, throw, or issue the upload-URL request
GetUploadUrlCall(p, imageBuffer, contentType) ==
    LET validation == _validateImageBuffer(imageBuffer, contentType)
        q == [p EXCEPT !.validations = @ + 1, !.buffer = imageBuffer,
                       !.contentType = contentType]
    IN  IF ~validation.isValid
        THEN PipelineRejects(q, ValidationError(validation.errors))
        ELSE [q EXCEPT !.pc = "urlreq", !.urlRequests = @ + 1]

\* processImage up to its first await
ProcessImageCall(source) ==
    IF source.isUrl
    THEN [IdlePipeline EXCEPT !.pc = "fetch", !.acquisitions = 1]
    ELSE IF ~source.file.exists
         THEN PipelineRejects(IdlePipeline, Err("E_FILE_NOT_FOUND"))
    ELSE LET read == [IdlePipeline EXCEPT !.acquisitions = 1]
         IN  IF source.file.ext = ".png"
             THEN GetUploadUrlCall(read, source.file.buffer, ImagePng)
             ELSE IF source.file.ext \in {".jpg", ".jpeg"}
             THEN GetUploadUrlCall(read, source.file.buffer, ImageJpeg)
             ELSE PipelineRejects(read, Err("E_UNSUPPORTED_EXT"))

\* processImage on the answer to the GET of the image
ProcessImageFetched(p, response) ==
    IF response.name # None THEN PipelineRejects(p, Err(response.name))
    ELSE IF ~Ok(response) THEN PipelineRejects(p, Err("E_FETCH_IMAGE"))
    ELSE GetUploadUrlCall(p, response.buffer,
            IF response.contentType = NoContentType THEN ImageJpeg
            ELSE response.contentType)

\* variant: the envelope's statusCode alone decides
GetUploadUrlError_StatusCodeOnly(response) ==
    IF response.name = "AbortError" THEN Err("E_URL_TIMEOUT")
    ELSE IF response.name # None
         THEN [kind |-> response.name, detail |-> <<"/v2/", "upload", "ImageUrl">>]
    ELSE IF ~Ok(response)
         THEN IF response.http = 403 THEN Err("E_URL_403")
              ELSE IF response.http = 429 THEN Err("E_URL_429")
              ELSE IF response.http = 402 THEN Err("E_URL_402")
              ELSE Err("E_URL_HTTP")
    ELSE IF response.statusCode = 2000 THEN NoError
    ELSE Err("E_URL_INVALID")

\* getUploadUrl on the answer to its request: the error it throws, NoError for a ticket
GetUploadUrlError(response) ==
    IF response.name = "AbortError" THEN Err("E_URL_TIMEOUT")
    ELSE IF response.name # None
         THEN [kind |-> response.name, detail |-> <<"/v2/", "upload", "ImageUrl">>]
    ELSE IF ~Ok(response)
         THEN IF response.http = 403 THEN Err("E_URL_403")
              ELSE IF response.http = 429 THEN Err("E_URL_429")
              ELSE IF response.http = 402 THEN Err("E_URL_402")
              ELSE Err("E_URL_HTTP")
    ELSE IF response.statusCode = 2000 /\ response.uploadImage /\ response.imageUrl
         THEN NoError
    ELSE Err("E_URL_INVALID")

\* processImage on the answer to the upload-URL request: throw, or issue the PUT
ProcessImageTicket(p, response, uploadUrl, imageUrl) ==
    LET error == GetUploadUrlError(response)
    IN  IF error # NoError THEN PipelineRejects(p, error)
        ELSE [p EXCEPT !.pc = "put", !.puts = @ + 1, !.putTarget = uploadUrl,
                       !.uploadUrl = uploadUrl, !.imageUrl = imageUrl]

\* uploadImageToS3 on the answer to the PUT: the error it throws, NoError for none
UploadImageToS3Error(response) ==
    IF response.name = "AbortError" THEN Err("E_S3_TIMEOUT")
    ELSE IF response.name # None THEN Err("E_S3_FAILED")
    ELSE IF ~Ok(response) THEN Err("E_S3_FAILED")
    ELSE NoError

\* variant: a failed PUT sent once more to the same URL
ProcessImageUploaded_RetriesPut(p, response) ==
    LET error == UploadImageToS3Error(response)
    IN  IF error # NoError
        THEN IF p.puts < 2 THEN [p EXCEPT !.puts = @ + 1] ELSE PipelineRejects(p, error)
        ELSE [p EXCEPT !.pc = "done", !.buffer = NoBuffer, !.contentType = NoContentType]

\* processImage on the answer to the PUT
ProcessImageUploaded(p, response) ==
    LET error == UploadImageToS3Error(response)
    IN  IF error # NoError THEN PipelineRejects(p, error)
        ELSE [p EXCEPT !.pc = "done", !.buffer = NoBuffer, !.contentType = NoContentType]

\* variant: every delivered 2xx answer taken for an accepted submission
RequestFaceSwapError_AnyEnvelope(response) ==
    IF response.name = "AbortError" THEN Err("E_SWAP_TIMEOUT")
    ELSE IF response.name # None THEN Err(response.name)
    ELSE IF ~Ok(response) THEN Err("E_SWAP_HTTP")
    ELSE NoError

\* requestFaceSwap on the answer to its POST: the error it throws, NoError for an orderId
RequestFaceSwapError(response) ==
    IF response.name = "AbortError" THEN Err("E_SWAP_TIMEOUT")
    ELSE IF response.name # None THEN Err(response.name)
    ELSE IF ~Ok(response)
         THEN IF response.http = 403 THEN Err("E_SWAP_403")
              ELSE IF response.http = 402 THEN Err("E_SWAP_402")
              ELSE IF response.http = 400 THEN Err("E_SWAP_400")
              ELSE Err("E_SWAP_HTTP")
    ELSE IF response.statusCode = 2000 /\ response.orderId # "" THEN NoError
    ELSE Err("E_SWAP_INVALID")

----------------------------------------------------------------------------
(* performFaceSwap                                                         *)
(* jpc: "unused", "idle" (not yet called), "images" (awaiting Promise.all),*)
(* "submit" (POST /v1/face-swap in flight), "status" (POST                 *)
(* /v1/order-status in flight), "sleep" (a wait between two polls),        *)
(* "resolved", "rejected".                                                 *)

Pending == [state |-> "pending", url |-> None, error |-> NoError]
Resolved(url) == [state |-> "resolved", url |-> url, error |-> NoError]
Rejected(error) == [state |-> "rejected", url |-> None, error |-> error]

NoCalls == [submit |-> 0, status |-> 0, statusInFlight |-> 0, sleeps |-> 0]

\* the elapsed times recorded since the last reset: how many, and their sum
NoneRecorded == [n |-> 0, sum |-> 0]
Recorded(h, totalTime) == [n |-> h.n + 1, sum |-> h.sum + totalTime]

NoPoll == [orderId |-> "", attempt |-> 0, elapsed |-> 0, wait |-> 0, log |-> << >>]

\* the URLs the service hands out for one upload-URL request
UploadUrlFor(j, side) == <<"upload", j, side>>
ImageUrlFor(j, side) == <<"image", j, side>>

\* variant: a settled job settles again
AwaitingImages_Resettles(state) == state \in {"images", "rejected"}

\* Promise.all is still pending: it settles once
AwaitingImages(state) == state = "images"

\* variant: Promise.any in place of Promise.all
AllResolved_Any(pipes) == \E s \in Sides : pipes[s].pc = "done"

\* Promise.all fulfils when every promise has
AllResolved(pipes) == \A s \in Sides : pipes[s].pc = "done"

\* variant: one pass more
LoopContinues_OneMore(attempt) == attempt <= MAX_RETRIES + 1

\* the for-loop condition
LoopContinues(attempt) == attempt <= MAX_RETRIES

JobRejects(j, error, st) ==
    /\ jpc' = [jpc EXCEPT ![j] = "rejected"]
    /\ jout' = [jout EXCEPT ![j] = Rejected(error)]
    /\ stats' = st

\* requestFaceSwap up to its fetch: totalRequests++ and the POST
RequestFaceSwapCall(j) ==
    /\ stats' = IncTotalRequests(stats)
    /\ calls' = [calls EXCEPT ![j].submit = @ + 1]
    /\ jpc' = [jpc EXCEPT ![j] = "submit"]
    /\ UNCHANGED <<jout, poll>>

\* variant: Promise.allSettled in place of Promise.all, its results not inspected
ImagesAwaited_AllSettled(j, side, p) ==
    LET pipes == [img[j] EXCEPT ![side] = p]
    IN  /\ img' = [img EXCEPT ![j] = pipes]
        /\ IF AwaitingImages(jpc[j]) /\ \A s \in Sides : pipes[s].pc \in {"done", "failed"}
           THEN RequestFaceSwapCall(j)
           ELSE UNCHANGED <<jpc, jout, stats, calls, poll>>

\* variant: the failure of one pipeline aborts the other
ImagesAwaited_CancelsOther(j, side, p) ==
    LET pipes == [img[j] EXCEPT ![side] = p]
        other == img[j][Other(side)]
        aborted == IF other.pc \in {"fetch", "urlreq", "put"}
                   THEN PipelineRejects(other, Err("AbortError")) ELSE other
    IN  IF ~AwaitingImages(jpc[j])
        THEN img' = [img EXCEPT ![j] = pipes] /\ UNCHANGED <<jpc, jout, stats, calls, poll>>
        ELSE IF p.pc = "failed"
        THEN /\ img' = [img EXCEPT ![j] = [pipes EXCEPT ![Other(side)] = aborted]]
             /\ JobRejects(j, p.error, stats) /\ UNCHANGED <<calls, poll>>
        ELSE /\ img' = [img EXCEPT ![j] = pipes]
             /\ IF AllResolved(pipes) THEN RequestFaceSwapCall(j)
                ELSE UNCHANGED <<jpc, jout, stats, calls, poll>>

\* the await of Promise.all after the pipeline of `side` has become p
ImagesAwaited(j, side, p) ==
    LET pipes == [img[j] EXCEPT ![side] = p]
    IN  /\ img' = [img EXCEPT ![j] = pipes]
        /\ IF ~AwaitingImages(jpc[j]) THEN UNCHANGED <<jpc, jout, stats, calls, poll>>
           ELSE IF p.pc = "failed"
                THEN JobRejects(j, p.error, stats) /\ UNCHANGED <<calls, poll>>
           ELSE IF AllResolved(pipes) THEN RequestFaceSwapCall(j)
           ELSE UNCHANGED <<jpc, jout, stats, calls, poll>>

\* performFaceSwap(sourceImage, targetImage, sourceIsUrl, targetIsUrl) up to its
\* first await: both processImage calls run to their first await, in order
PerformFaceSwapCall(j, source, target) ==
    /\ jpc[j] = "idle"
    /\ LET pipes == [s \in Sides |->
                        ProcessImageCall(IF s = "source" THEN source ELSE target)]
       IN  /\ img' = [img EXCEPT ![j] = pipes]
           /\ IF pipes["source"].pc = "failed"
              THEN JobRejects(j, pipes["source"].error, stats)
              ELSE IF pipes["target"].pc = "failed"
              THEN JobRejects(j, pipes["target"].error, stats)
              ELSE /\ jpc' = [jpc EXCEPT ![j] = "images"]
                   /\ UNCHANGED <<jout, stats>>
    /\ UNCHANGED <<calls, poll, hist>>

\* performFaceSwap called on the client directly
PerformFaceSwap(j, source, target) ==
    PerformFaceSwapCall(j, source, target) /\ UNCHANGED aside

\* the GET of an image URL is answered
ImageFetched(j, side, response) ==
    /\ img[j][side].pc = "fetch"
    /\ ImagesAwaited(j, side, ProcessImageFetched(img[j][side], response))
    /\ UNCHANGED <<hist, aside>>

\* POST /v2/uploadImageUrl is answered
UploadUrlAnswered(j, side, response) ==
    /\ img[j][side].pc = "urlreq"
    /\ ImagesAwaited(j, side, ProcessImageTicket(img[j][side], response,
                                  UploadUrlFor(j, side), ImageUrlFor(j, side)))
    /\ UNCHANGED <<hist, aside>>

\* the PUT of the bytes is answered
PutAnswered(j, side, response) ==
    /\ img[j][side].pc = "put"
    /\ ImagesAwaited(j, side, ProcessImageUploaded(img[j][side], response))
    /\ UNCHANGED <<hist, aside>>

\* variant: the status call not awaited, so that the next pass issues its own as well
PollLoopHead_NoAwait(j, attempt, pl, cl, st) ==
    /\ poll' = [poll EXCEPT ![j] = [pl EXCEPT !.attempt = attempt]]
    /\ calls' = [calls EXCEPT ![j] = [cl EXCEPT !.status = @ + 2,
                                                 !.statusInFlight = @ + 2]]
    /\ jpc' = [jpc EXCEPT ![j] = "status"]
    /\ stats' = st
    /\ UNCHANGED jout

\* the loop of pollFaceSwapStatus reaches its head with `attempt`: the next status
\* call, or the code after the loop
PollLoopHead(j, attempt, pl, cl, st) ==
    IF LoopContinues(attempt)
    THEN /\ poll' = [poll EXCEPT ![j] = [pl EXCEPT !.attempt = attempt]]
         /\ calls' = [calls EXCEPT ![j] = [cl EXCEPT !.status = @ + 1,
                                                      !.statusInFlight = @ + 1]]
         /\ jpc' = [jpc EXCEPT ![j] = "status"]
         /\ stats' = st
         /\ UNCHANGED jout
    ELSE /\ poll' = [poll EXCEPT ![j] = pl]
         /\ calls' = [calls EXCEPT ![j] = cl]
         /\ LET pass == PollExhausted(st) IN JobRejects(j, pass.error, pass.stats)

\* POST /v1/face-swap is answered
SwapAnswered(j, response) ==
    /\ jpc[j] = "submit"
    /\ LET error == RequestFaceSwapError(response)
       IN  IF error # NoError
           THEN JobRejects(j, error, IncFailedSwaps(stats)) /\ UNCHANGED <<calls, poll>>
           ELSE PollLoopHead(j, 1, [NoPoll EXCEPT !.orderId = response.orderId],
                             calls[j], stats)
    /\ UNCHANGED <<img, hist, aside>>

\* POST /v1/order-status is answered, lat ms after it was issued
StatusAnswered(j, response, lat) ==
    /\ jpc[j] = "status"
    /\ LET attempt == poll[j].attempt
           totalTime == poll[j].elapsed + lat
           pass == PollPass(stats, attempt, totalTime, response)
           pl == [poll[j] EXCEPT !.elapsed = totalTime, !.wait = pass.wait,
                     !.log = Append(@, [attempt |-> attempt, response |-> response,
                                        kind |-> pass.kind, wait |-> pass.wait])]
           cl == [calls[j] EXCEPT !.statusInFlight = @ - 1]
       IN  /\ CASE pass.kind = "return" ->
                   /\ jpc' = [jpc EXCEPT ![j] = "resolved"]
                   /\ jout' = [jout EXCEPT ![j] = Resolved(pass.output)]
                   /\ stats' = pass.stats
                   /\ poll' = [poll EXCEPT ![j] = pl]
                   /\ calls' = [calls EXCEPT ![j] = cl]
             [] pass.kind = "throw" ->
                   /\ JobRejects(j, pass.error, pass.stats)
                   /\ poll' = [poll EXCEPT ![j] = pl]
                   /\ calls' = [calls EXCEPT ![j] = cl]
             [] pass.kind = "sleep" ->
                   /\ jpc' = [jpc EXCEPT ![j] = "sleep"]
                   /\ stats' = pass.stats
                   /\ poll' = [poll EXCEPT ![j] = pl]
                   /\ calls' = [calls EXCEPT ![j] = [cl EXCEPT !.sleeps = @ + 1]]
                   /\ UNCHANGED jout
             [] pass.kind = "next" ->
                   PollLoopHead(j, attempt + 1, pl, cl, pass.stats)
           /\ hist' = IF pass.kind = "return" THEN Recorded(hist, totalTime) ELSE hist
    /\ UNCHANGED <<img, aside>>

\* the timer of a wait between two polls fires
SleepDone(j) ==
    /\ jpc[j] = "sleep"
    /\ PollLoopHead(j, poll[j].attempt + 1,
                    [poll[j] EXCEPT !.elapsed = @ + TimerMs(poll[j].wait), !.wait = 0],
                    calls[j], stats)
    /\ UNCHANGED <<img, hist, aside>>

\* variant: the average survives the reset
ResetStats_KeepsAverage ==
    /\ stats' = [InitialStats EXCEPT !.averageProcessingTime = stats.averageProcessingTime]
    /\ hist' = NoneRecorded
    /\ UNCHANGED <<jpc, jout, img, calls, poll, aside>>

\* resetStats()
ResetStats ==
    /\ stats' = InitialStats
    /\ hist' = NoneRecorded
    /\ UNCHANGED <<jpc, jout, img, calls, poll, aside>>

----------------------------------------------------------------------------
(* Configuration: isConfigured and testConnection                          *)
(* A JavaScript value that may be undefined is [defined, chars]; a string  *)
(* is its sequence of characters.                                          *)

Undefined == [defined |-> FALSE, chars |-> << >>]
Str(chars) == [defined |-> TRUE, chars |-> chars]

\* !!value
Truthy(value) == value.defined /\ Len(value.chars) > 0

\* a key of n characters
Key(n) == Str([i \in 1 .. n |-> "k"])

BaseUrl == Str(<<"https://api.lightxeditor.com/external/api">>)

DefaultConfig == [LIGHTX_API_KEY |-> Key(20), LIGHTX_BASE_URL |-> BaseUrl]

\* no answer: testConnection has not been called
NoResponse == [name |-> None, http |-> 0, json |-> FALSE]

\* an object a call handed out: ref says which object it is, "stats" for this.stats
\* itself, "copy" for a new one; written says whether the caller has written to it
NoObject ==
    [ref |-> None, written |-> FALSE, totalRequests |-> 0, successfulSwaps |-> 0,
     failedSwaps |-> 0, averageProcessingTime |-> Rat(0, 1),
     successRate |-> 0, averageProcessingTimeFormatted |-> 0]

NoReturn == [op |-> None, value |-> FALSE, response |-> NoResponse, object |-> NoObject]

\* variant: a key of exactly 16 characters refused
isConfigured_SixteenRefused(cfg) ==
    LET hasApiKey == Truthy(cfg.LIGHTX_API_KEY)
        hasBaseUrl == Truthy(cfg.LIGHTX_BASE_URL)
    IN  IF ~hasApiKey THEN FALSE
        ELSE IF ~hasBaseUrl THEN FALSE
        ELSE IF Len(cfg.LIGHTX_API_KEY.chars) <= 16 THEN FALSE
        ELSE TRUE

isConfigured(cfg) ==
    LET hasApiKey == Truthy(cfg.LIGHTX_API_KEY)
        hasBaseUrl == Truthy(cfg.LIGHTX_BASE_URL)
    IN  IF ~hasApiKey THEN FALSE
        ELSE IF ~hasBaseUrl THEN FALSE
        ELSE IF Len(cfg.LIGHTX_API_KEY.chars) < 16 THEN FALSE
        ELSE TRUE

\* answers to the probe POST /v2/uploadImageUrl: thrown (name), or delivered with a
\* status and a body that response.json() can or cannot parse
ProbeResponses ==
    { [name |-> n, http |-> 0, json |-> FALSE] : n \in {"AbortError", "FetchError"} }
    \cup { [name |-> None, http |-> h, json |-> b]
            : h \in {200, 201, 403, 500}, b \in BOOLEAN }

\* testConnection on the answer to its probe: the boolean it resolves to
testConnection(response) ==
    IF response.name # None THEN FALSE
    ELSE IF response.http = 200
         THEN IF response.json THEN TRUE ELSE FALSE
    ELSE IF response.http = 403 THEN FALSE
    ELSE FALSE

IsConfigured ==
    /\ ret' = [op |-> "isConfigured", value |-> isConfigured(config),
               response |-> NoResponse, object |-> NoObject]
    /\ UNCHANGED <<stats, jpc, jout, img, calls, poll, hist, vin, vout, config, sub, router>>

\* the probe of testConnection is answered; fetch throws at once on a URL built from
\* an absent base URL
TestConnection(response) ==
    /\ Truthy(config.LIGHTX_BASE_URL) \/ response.name = "FetchError"
    /\ ret' = [op |-> "testConnection", value |-> testConnection(response),
               response |-> response, object |-> NoObject]
    /\ UNCHANGED <<stats, jpc, jout, img, calls, poll, hist, vin, vout, config, sub, router>>

----------------------------------------------------------------------------
(* getStats, and a caller that writes to the object it got                 *)

\* x.toFixed(2) of a percentage, in hundredths of a percent (half rounds up)
ToFixed2(num, den) == (2 * 10000 * num + den) \div (2 * den)

\* Math.round of a rational
Round(q) == (2 * q.num + q.den) \div (2 * q.den)

\* variant: this.stats itself handed out, with the derived fields written onto it
getStats_ReturnsStats(st) ==
    [ref |-> "stats", written |-> FALSE,
     totalRequests |-> st.totalRequests, successfulSwaps |-> st.successfulSwaps,
     failedSwaps |-> st.failedSwaps, averageProcessingTime |-> st.averageProcessingTime,
     successRate |-> IF st.totalRequests > 0
                     THEN ToFixed2(st.successfulSwaps, st.totalRequests) ELSE 0,
     averageProcessingTimeFormatted |-> Round(st.averageProcessingTime)]

\* { ...this.stats, successRate, averageProcessingTimeFormatted }: a new object
getStats(st) ==
    [ref |-> "copy", written |-> FALSE,
     totalRequests |-> st.totalRequests, successfulSwaps |-> st.successfulSwaps,
     failedSwaps |-> st.failedSwaps, averageProcessingTime |-> st.averageProcessingTime,
     successRate |-> IF st.totalRequests > 0
                     THEN ToFixed2(st.successfulSwaps, st.totalRequests) ELSE 0,
     averageProcessingTimeFormatted |-> Round(st.averageProcessingTime)]

GetStats ==
    /\ ret' = [op |-> "getStats", value |-> TRUE, response |-> NoResponse,
               object |-> getStats(stats)]
    /\ UNCHANGED <<stats, jpc, jout, img, calls, poll, hist, vin, vout, config, sub, router>>

\* the caller of getStats writes to a counter of the object it got: result[counter]++
ResultWritten(counter) ==
    /\ ret.op = "getStats" /\ ~ret.object.written
    /\ ret' = [ret EXCEPT !.object = [@ EXCEPT ![counter] = @ + 1, !.written = TRUE]]
    /\ stats' = IF ret.object.ref = "stats" THEN [stats EXCEPT ![counter] = @ + 1]
                ELSE stats
    /\ UNCHANGED <<jpc, jout, img, calls, poll, hist, vin, vout, config, sub, router>>

----------------------------------------------------------------------------
(* The rateLimit middleware of the router: one Map from IP to the times    *)
(* (ms) of its admitted requests, shared by every rateLimit(...) instance. *)
(* seen is the history of the POST /submit requests of each IP; last is    *)
(* the decision on the latest request: status 429 or none, and whether     *)
(* next() was called; requests counts the requests so far.                 *)

windowMs == 15 * 60 * 1000

Routes == {"submit", "download", "delete"}

\* rateLimit(5, ...) on POST /submit, rateLimit(20, ...) on GET /download/:id/:type,
\* rateLimit(10, ...) on DELETE /admin/submissions/:id
maxRequests(route) ==
    CASE route = "submit" -> 5
      [] route = "download" -> 20
      [] route = "delete" -> 10

IPs == {"10.0.0.1", "10.0.0.2"}

NoDecision == [ip |-> None, route |-> None, status |-> 0, next |-> FALSE]

NoTraffic ==
    [now |-> 0, rateLimitMap |-> [ip \in IPs |-> << >>],
     seen |-> [ip \in IPs |-> << >>], last |-> NoDecision, requests |-> 0]

\* requests.filter((time) => time > windowStart)
RecentRequests(requests, windowStart) ==
    SelectSeq(requests, LAMBDA time : time > windowStart)

\* variant: the limit tested after the request has been recorded
RateLimited_AfterPush(recentRequests, route) == Len(recentRequests) > maxRequests(route)

\* recentRequests.length >= maxRequests
RateLimited(recentRequests, route) == Len(recentRequests) >= maxRequests(route)

\* the middleware returned by rateLimit(maxRequests(route), windowMs), on a request of ip
RateLimit(ip, route) ==
    /\ LET now == limiter.now
           windowStart == now - windowMs
           recentRequests == RecentRequests(limiter.rateLimitMap[ip], windowStart)
           limited == RateLimited(recentRequests, route)
       IN  limiter' =
              [limiter EXCEPT
                 !.rateLimitMap = IF limited THEN @
                                  ELSE [@ EXCEPT ![ip] = Append(recentRequests, now)],
                 !.seen = IF route = "submit"
                          THEN [@ EXCEPT ![ip] = Append(@, [time |-> now, admitted |-> ~limited])]
                          ELSE @,
                 !.last = [ip |-> ip, route |-> route,
                           status |-> IF limited THEN 429 ELSE 0, next |-> ~limited],
                 !.requests = @ + 1]
    /\ UNCHANGED <<app, admin>>

\* Date.now() moves on
ClockAdvances(ms) ==
    /\ limiter' = [limiter EXCEPT !.now = @ + ms]
    /\ UNCHANGED <<app, admin>>

----------------------------------------------------------------------------
(* DELETE /admin/submissions/:id: SubmissionController.deleteSubmission    *)
(* over SubmissionModel.deleteSubmission and getSubmissionById.            *)
(* store: the submissions collection, _id -> the publicIds of its images;  *)
(* host: the publicIds the image host holds. Per request: pc ("idle",      *)
(* "find", "destroy", "deleteOne", "done"), the id, the publicIds still to *)
(* destroy, what findOne returned (history) and the response.              *)

HexDigits == {"0", "1", "2", "3", "4", "5", "6", "7", "8", "9",
              "a", "b", "c", "d", "e", "f"}

\* ObjectId.isValid on a string of characters: 24 hex digits
ObjectIdIsValid(id) == Len(id) = 24 /\ \A i \in DOMAIN id : id[i] \in HexDigits

\* the id made of one digit, 24 times
Oid(digit) == [i \in 1 .. 24 |-> digit]

\* sourceImage.publicId, targetImage.publicId, swappedImage.publicId of a record
ImagesOf(digit) == << <<"source", digit>>, <<"target", digit>>, <<"swapped", digit>> >>

NoJson == [status |-> 0, error |-> None, message |-> None]

NoDelete == [pc |-> "idle", id |-> << >>, todo |-> << >>, found |-> None, res |-> NoJson]

AdminRequests == {"d1", "d2"}

NoAdmin ==
    [store |-> << >>, host |-> {}, req |-> [r \in AdminRequests |-> NoDelete]]

\* res.status(status).json({error}) or res.json({message}); the handler is over
Json(q, status, error, message) ==
    [q EXCEPT !.pc = "done", !.todo = << >>,
              !.res = [status |-> status, error |-> error, message |-> message]]

\* the catch block of the controller
DeleteFailed(q) == Json(q, 500, "Delete failed. Please try again later.", None)

\* getSubmissionById throws "Submission not found"; deleteSubmission rethrows it
NotFound(q) == DeleteFailed(q)

\* the controller up to its await
DeleteSubmissionStart(q, id) ==
    IF id = << >> THEN Json(q, 400, "Missing submission ID", None)
    ELSE IF ~ObjectIdIsValid(id) THEN Json(q, 400, "Invalid submission ID format", None)
    ELSE [q EXCEPT !.pc = "find", !.id = id]

\* a DELETE request arrives
DeleteSubmission(r, id) ==
    /\ admin.req[r].pc = "idle"
    /\ admin' = [admin EXCEPT !.req[r] = DeleteSubmissionStart(@, id)]
    /\ UNCHANGED <<app, limiter>>

\* getCollection and findOne are answered: the database failed, or it looked the id up
FindAnswered(r, dbOk) ==
    /\ admin.req[r].pc = "find"
    /\ LET q == admin.req[r]
           found == q.id \in DOMAIN admin.store
       IN  admin' = [admin EXCEPT !.req[r] =
              IF ~dbOk THEN DeleteFailed(q)
              ELSE IF ~found THEN NotFound([q EXCEPT !.found = "no"])
              ELSE [q EXCEPT !.pc = "destroy", !.found = "yes", !.todo = admin.store[q.id]]]
    /\ UNCHANGED <<app, limiter>>

\* cloudinary.uploader.destroy of the next image is answered
Destroyed(r, ok) ==
    /\ admin.req[r].pc = "destroy"
    /\ LET q == admin.req[r]
       IN  IF ~ok THEN admin' = [admin EXCEPT !.req[r] = DeleteFailed(q)]
           ELSE admin' = [admin EXCEPT
                    !.host = @ \ {Head(q.todo)},
                    !.req[r] = [q EXCEPT !.todo = Tail(@),
                                         !.pc = IF Len(q.todo) = 1 THEN "deleteOne"
                                                ELSE "destroy"]]
    /\ UNCHANGED <<app, limiter>>

\* collection.deleteOne is answered; result.deletedCount > 0
DeleteOneAnswered(r, dbOk) ==
    /\ admin.req[r].pc = "deleteOne"
    /\ LET q == admin.req[r]
           deleted == q.id \in DOMAIN admin.store
       IN  IF ~dbOk THEN admin' = [admin EXCEPT !.req[r] = DeleteFailed(q)]
           ELSE admin' = [admin EXCEPT
                    !.store = [id \in DOMAIN @ \ {q.id} |-> @[id]],
                    !.req[r] = IF deleted
                               THEN Json(q, 200, None, "Submission deleted successfully")
                               ELSE Json(q, 404, "Submission not found", None)]
    /\ UNCHANGED <<app, limiter>>

----------------------------------------------------------------------------
(* SubmissionController.handleSubmission: one POST /submit request.        *)
(* pc: "idle" (not yet arrived), "uploadSource", "uploadTarget" (the two   *)
(* image-host uploads of uploadImages in flight), "swapping" (awaiting     *)
(* performFaceSwap), "uploadResult" (uploadSwappedImage in flight),        *)
(* "saving" (createSubmission in flight), "responded"; "rejected" (the     *)
(* handler's promise rejected, nothing sent), "unanswered" (the rejection  *)
(* went unhandled: the request gets no response).                          *)
(* A message is a sequence of fragments, as a content type is; the status  *)
(* envelope's failure text is one fragment that begins with "Face swap".   *)

\* error.message.includes(word)
MessageIncludes(message, word) ==
    \/ Includes(message, word)
    \/ word = "Face swap" /\ Includes(message, "Face swap failed during processing")

\* error.message of the errors the handler can catch
MessageOf(error) ==
    CASE error.kind = "E_NOT_CONFIGURED" ->
            <<"Face swap", " service is not properly configured. Please contact support.">>
      [] error.kind = "E_CLOUDINARY" -> <<"Failed to ", "upload", " to Cloudinary: ">>
      [] error.kind = "E_DB" -> error.detail
      [] error.kind = "E_VALIDATION" -> <<"Image ", "validation", " failed: ">> \o error.detail
      [] error.kind = "E_FETCH_IMAGE" -> <<"Failed to fetch image from URL: ">>
      [] error.kind = "AbortError" -> <<"The user aborted a request.">>
      [] error.kind = "FetchError" -> <<"request to ">> \o error.detail \o <<" failed">>
      [] error.kind = "E_URL_TIMEOUT" -> <<"Upload URL request timed out.">>
      [] error.kind = "E_URL_403" -> <<"API Authentication Failed (403).">>
      [] error.kind = "E_URL_429" -> <<"Rate limit exceeded (429).">>
      [] error.kind = "E_URL_402" -> <<"Payment required (402).">>
      [] error.kind = "E_URL_HTTP" -> <<"Failed to get ", "upload", " URL: ">>
      [] error.kind = "E_URL_INVALID" -> <<"Invalid ", "upload", " URL response: ">>
      [] error.kind = "E_S3_TIMEOUT" -> <<"S3 ", "upload", " timed out.">>
      [] error.kind = "E_S3_FAILED" -> <<"Failed to ", "upload", " to S3: ">>
      [] error.kind = "E_SWAP_TIMEOUT" -> <<"Face swap", " request timed out. Please try again.">>
      [] error.kind = "E_SWAP_403" -> <<"Face Swap API access denied (403).">>
      [] error.kind = "E_SWAP_402" -> <<"Insufficient credits (402).">>
      [] error.kind = "E_SWAP_400" -> <<"Invalid request (400).">>
      [] error.kind = "E_SWAP_HTTP" -> <<"Face swap", " request failed: ">>
      [] error.kind = "E_SWAP_INVALID" -> <<"Face swap", " failed: ">>
      [] error.kind = "E_POLL_HTTP_FAILED" -> <<"Status polling failed after 5 attempts">>
      [] error.kind = "E_STATUS_CHECK" -> <<"Status check error: ">> \o error.detail
      [] error.kind = "E_PROCESSING_FAILED" -> <<"Face swap", " failed during processing.">>
      [] error.kind = "E_POLL_EXHAUSTED" -> <<"Face swap", " did not complete within 5 attempts">>
      [] OTHER -> <<error.kind>>

GenericUnexpected == <<"An unexpected error occurred during processing.">>
GenericFaceSwap == <<"Face swap processing failed. Please try with different images.">>
GenericUpload == <<"Image upload failed. Please check your images and try again.">>
GenericDatabase == <<"Database error. Please try again later.">>

\* the userErrorMessage of the catch block
UserErrorMessage(message) ==
    IF MessageIncludes(message, "Face swap") THEN GenericFaceSwap
    ELSE IF MessageIncludes(message, "upload") THEN GenericUpload
    ELSE IF MessageIncludes(message, "validation") THEN message
    ELSE IF MessageIncludes(message, "database") THEN GenericDatabase
    ELSE GenericUnexpected

NoSubmission ==
    [pc |-> "idle", status |-> 0, error |-> << >>, swappedImage |-> None,
     thrown |-> NoError, rejection |-> NoError, tempFiles |-> FALSE, disk |-> 0,
     hostUploads |-> 0, jobs |-> 0, records |-> 0, responses |-> 0]

\* res.status(status).render("index", {error, swappedImage})
Responds(s, status, error, swappedImage) ==
    [s EXCEPT !.pc = "responded", !.status = status, !.error = error,
              !.swappedImage = swappedImage, !.responses = @ + 1]

\* router.post("/submit", ..., submissionController.handleSubmission): the method is
\* handed over without its object, and the router calls it as a plain function, so
\* inside it `this` is undefined
ThisIsController == FALSE

\* the catch block run on the controller: cleanupTempFiles(tempFiles), then the 500 page
CatchBlock(s, error) ==
    Responds([s EXCEPT !.thrown = error, !.disk = IF s.tempFiles THEN 0 ELSE @],
             500, UserErrorMessage(MessageOf(error)), None)

\* the catch block: its first statement reads this.cleanupTempFiles; with `this`
\* undefined that throws a TypeError out of the handler, before any cleanup or response
Caught(s, error) ==
    IF ThisIsController THEN CatchBlock(s, error)
    ELSE [s EXCEPT !.thrown = error, !.rejection = Err("TypeError"), !.pc = "rejected"]

\* the error-handling middleware of the application, on an error that is neither a
\* MulterError nor the file filter's
ErrorMiddleware(s) ==
    Responds(s, 500, <<"An unexpected error occurred. Please try again.">>, None)

\* variant: the configuration not looked at before the uploads
SubmissionStart_ConfigUnchecked(s, form, files, cfg) ==
    LET arrived == [s EXCEPT !.disk = files.onDisk]
    IN  IF ~form.isValid THEN Responds(arrived, 400, form.errors, None)
        ELSE IF ~files.isValid THEN Responds(arrived, 400, files.errors, None)
        ELSE [arrived EXCEPT !.tempFiles = TRUE, !.pc = "uploadSource",
                             !.hostUploads = @ + 1]

\* handleSubmission up to its first await: the two validations, the configuration
\* check, the first image-host upload
SubmissionStart(s, form, files, cfg) ==
    LET arrived == [s EXCEPT !.disk = files.onDisk]
    IN  IF ~form.isValid THEN Responds(arrived, 400, form.errors, None)
        ELSE IF ~files.isValid THEN Responds(arrived, 400, files.errors, None)
        ELSE LET stored == [arrived EXCEPT !.tempFiles = TRUE]
             IN  IF ~isConfigured(cfg) THEN Caught(stored, Err("E_NOT_CONFIGURED"))
                 ELSE [stored EXCEPT !.pc = "uploadSource", !.hostUploads = @ + 1]

\* uploadImages: its catch removes the local files and rethrows
UploadImagesFailed(s) == Caught([s EXCEPT !.disk = 0], Err("E_CLOUDINARY"))

\* uploadImages after the source upload: the target upload
SourceUploaded(s, ok) ==
    IF ok THEN [s EXCEPT !.pc = "uploadTarget", !.hostUploads = @ + 1]
    ELSE UploadImagesFailed(s)

\* uploadImages after the target upload: local files removed, performFaceSwap called
TargetUploaded(s, ok) ==
    IF ok THEN [s EXCEPT !.pc = "swapping", !.disk = 0, !.jobs = @ + 1]
    ELSE UploadImagesFailed(s)

\* variant: the outcome of performFaceSwap not looked at
FaceSwapReturned_IgnoresFailure(s, outcome) ==
    [s EXCEPT !.pc = "uploadResult", !.hostUploads = @ + 1]

\* after performFaceSwap: uploadSwappedImage, or the catch block
FaceSwapReturned(s, outcome) ==
    IF outcome.state = "resolved"
    THEN [s EXCEPT !.pc = "uploadResult", !.hostUploads = @ + 1]
    ELSE Caught(s, outcome.error)

\* after uploadSwappedImage: createSubmission, or the catch block
ResultUploaded(s, ok) ==
    IF ok THEN [s EXCEPT !.pc = "saving"] ELSE Caught(s, Err("E_CLOUDINARY"))

\* after createSubmission: the success page, or the catch block
SubmissionCreated(s, answer) ==
    IF answer.ok
    THEN Responds([s EXCEPT !.records = @ + 1, !.disk = IF s.tempFiles THEN 0 ELSE @],
                  200, << >>, "https://res/result.jpg")
    ELSE Caught(s, [kind |-> "E_DB", detail |-> answer.message])

\* what validateAndSanitizeInput(req.body) returns
FormValidations ==
    { [isValid |-> TRUE, errors |-> << >>],
      [isValid |-> FALSE, errors |-> <<"Name is required">>] }

\* what validateFiles(req.files) returns, with the temp files the upload parser wrote
FileValidations ==
    { [isValid |-> TRUE, errors |-> << >>, onDisk |-> 2],
      [isValid |-> FALSE, errors |-> <<"Source image must be less than 2MB">>, onDisk |-> 2],
      [isValid |-> FALSE, errors |-> <<"Both source and target images are required">>,
       onDisk |-> 0] }

\* answers of the database to insertOne
InsertAnswers ==
    { [ok |-> TRUE, message |-> << >>],
      [ok |-> FALSE, message |-> <<"connection refused">>],
      [ok |-> FALSE, message |-> <<"database", " unavailable">>] }

\* the job slot and the arguments handleSubmission calls performFaceSwap with
SubmissionJob == "j1"
HostedImage == CHOOSE source \in ImageSources : source.isUrl

job == <<stats, jpc, jout, img, calls, poll, hist>>

HandleSubmission(form, files) ==
    /\ sub.pc = "idle"
    /\ sub' = SubmissionStart(sub, form, files, config)
    /\ UNCHANGED <<job, client, router>>

SourceHosted(ok) ==
    /\ sub.pc = "uploadSource"
    /\ sub' = SourceUploaded(sub, ok)
    /\ UNCHANGED <<job, client, router>>

TargetHosted(ok) ==
    /\ sub.pc = "uploadTarget"
    /\ sub' = TargetUploaded(sub, ok)
    /\ IF ok THEN PerformFaceSwapCall(SubmissionJob, HostedImage, HostedImage)
       ELSE UNCHANGED job
    /\ UNCHANGED <<client, router>>

FaceSwapSettled ==
    /\ sub.pc = "swapping"
    /\ jpc[SubmissionJob] \in {"resolved", "rejected"}
    /\ sub' = FaceSwapReturned(sub, jout[SubmissionJob])
    /\ UNCHANGED <<job, client, router>>

ResultHosted(ok) ==
    /\ sub.pc = "uploadResult"
    /\ sub' = ResultUploaded(sub, ok)
    /\ UNCHANGED <<job, client, router>>

SubmissionSaved(answer) ==
    /\ sub.pc = "saving"
    /\ sub' = SubmissionCreated(sub, answer)
    /\ UNCHANGED <<job, client, router>>

\* the rejected promise of the handler: a router that watches the promise its callback
\* returned passes the error to the application's error middleware; one that does not
\* leaves the rejection unhandled and the request without a response
HandlerRejected(forwarded) ==
    /\ sub.pc = "rejected"
    /\ sub' = IF forwarded THEN ErrorMiddleware(sub) ELSE [sub EXCEPT !.pc = "unanswered"]
    /\ UNCHANGED <<job, client, router>>

----------------------------------------------------------------------------
(* One performFaceSwap job against every answer of the environment *)

NoValidation == [done |-> FALSE, isValid |-> FALSE, errors |-> << >>]
NoInput == [buffer |-> NoBuffer, contentType |-> NoContentType]

Init ==
    /\ stats = InitialStats
    /\ jpc = [j \in Jobs |-> IF j = "j1" THEN "idle" ELSE "unused"]
    /\ jout = [j \in Jobs |-> Pending]
    /\ img = [j \in Jobs |-> [s \in Sides |-> IdlePipeline]]
    /\ calls = [j \in Jobs |-> NoCalls]
    /\ poll = [j \in Jobs |-> NoPoll]
    /\ hist = NoneRecorded
    /\ vin = NoInput
    /\ vout = NoValidation
    /\ config = DefaultConfig
    /\ ret = NoReturn
    /\ sub = NoSubmission
    /\ limiter = NoTraffic
    /\ admin = NoAdmin

Next ==
    \/ \E j \in Jobs, source \in ImageSources, target \in ImageSources :
            PerformFaceSwap(j, source, target)
    \/ \E j \in Jobs, side \in Sides, response \in ImageResponses :
            ImageFetched(j, side, response)
    \/ \E j \in Jobs, side \in Sides, response \in UploadUrlResponses :
            UploadUrlAnswered(j, side, response)
    \/ \E j \in Jobs, side \in Sides, response \in PutResponses :
            PutAnswered(j, side, response)
    \/ \E j \in Jobs, response \in SwapResponses : SwapAnswered(j, response)
    \/ \E j \in Jobs, response \in StatusResponses, lat \in Latencies :
            StatusAnswered(j, response, lat)
    \/ \E j \in Jobs : SleepDone(j)
    \/ ResetStats

Spec == Init /\ [][Next]_vars

----------------------------------------------------------------------------
(* One performFaceSwap job on an instance whose statistics nobody resets *)

NextJob ==
    \/ \E j \in Jobs, source \in ImageSources, target \in ImageSources :
            PerformFaceSwap(j, source, target)
    \/ \E j \in Jobs, side \in Sides, response \in ImageResponses :
            ImageFetched(j, side, response)
    \/ \E j \in Jobs, side \in Sides, response \in UploadUrlResponses :
            UploadUrlAnswered(j, side, response)
    \/ \E j \in Jobs, side \in Sides, response \in PutResponses :
            PutAnswered(j, side, response)
    \/ \E j \in Jobs, response \in SwapResponses : SwapAnswered(j, response)
    \/ \E j \in Jobs, response \in StatusResponses, lat \in Latencies :
            StatusAnswered(j, response, lat)
    \/ \E j \in Jobs : SleepDone(j)

SpecJob == Init /\ [][NextJob]_vars

----------------------------------------------------------------------------
(* Three performFaceSwap jobs running concurrently on one instance, on     *)
(* local images, against a service that hands out tickets and stores the   *)
(* bytes, accepts or refuses the submission, and answers the first status  *)
(* call, after 1..MaxDelay ms, with `active` or `failed`.                  *)

MaxDelay == 3

Delays == 1 .. MaxDelay

FaceJpg == CHOOSE f \in LocalFiles : f.path = "face.jpg"
StylePng == CHOOSE f \in LocalFiles : f.path = "style.png"

TicketResponses ==
    { r \in UploadUrlResponses : GetUploadUrlError(r) = NoError }

StoredResponses == { r \in PutResponses : UploadImageToS3Error(r) = NoError }

SubmissionResponses ==
    { r \in SwapResponses : r.name = None /\ r.http \in {200, 500} /\ r.orderId # "" }

OutcomeResponses ==
    { r \in StatusResponses :
        r.statusCode = 2000 /\ (r.status = "failed" \/ (r.status = "active" /\ r.output # "")) }

InitConcurrent ==
    /\ stats = InitialStats
    /\ jpc = [j \in Jobs |-> "idle"]
    /\ jout = [j \in Jobs |-> Pending]
    /\ img = [j \in Jobs |-> [s \in Sides |-> IdlePipeline]]
    /\ calls = [j \in Jobs |-> NoCalls]
    /\ poll = [j \in Jobs |-> NoPoll]
    /\ hist = NoneRecorded
    /\ vin = NoInput
    /\ vout = NoValidation
    /\ config = DefaultConfig
    /\ ret = NoReturn
    /\ sub = NoSubmission
    /\ limiter = NoTraffic
    /\ admin = NoAdmin

NextConcurrent ==
    \/ \E j \in Jobs :
            PerformFaceSwap(j, [isUrl |-> FALSE, file |-> FaceJpg],
                               [isUrl |-> FALSE, file |-> StylePng])
    \/ \E j \in Jobs, side \in Sides, response \in TicketResponses :
            UploadUrlAnswered(j, side, response)
    \/ \E j \in Jobs, side \in Sides, response \in StoredResponses :
            PutAnswered(j, side, response)
    \/ \E j \in Jobs, response \in SubmissionResponses : SwapAnswered(j, response)
    \/ \E j \in Jobs, response \in OutcomeResponses, lat \in Delays :
            StatusAnswered(j, response, lat)
    \/ ResetStats

SpecConcurrent == InitConcurrent /\ [][NextConcurrent]_vars

\* the same three jobs on an instance whose statistics nobody resets
NextParallel ==
    \/ \E j \in Jobs :
            PerformFaceSwap(j, [isUrl |-> FALSE, file |-> FaceJpg],
                               [isUrl |-> FALSE, file |-> StylePng])
    \/ \E j \in Jobs, side \in Sides, response \in TicketResponses :
            UploadUrlAnswered(j, side, response)
    \/ \E j \in Jobs, side \in Sides, response \in StoredResponses :
            PutAnswered(j, side, response)
    \/ \E j \in Jobs, response \in SubmissionResponses : SwapAnswered(j, response)
    \/ \E j \in Jobs, response \in OutcomeResponses, lat \in Delays :
            StatusAnswered(j, response, lat)

SpecParallel == InitConcurrent /\ [][NextParallel]_vars

----------------------------------------------------------------------------
(* isConfigured and testConnection on an instance holding any key *)

MaxKeyLen == 20

\* process.env.LIGHTX_API_KEY: absent, or a string; "short" is one of them
ApiKeys ==
    {Undefined, Str(<<"s", "h", "o", "r", "t">>)} \cup { Key(n) : n \in 0 .. MaxKeyLen }

\* the field as the instance holds it: the constructor's constant, or cleared
BaseUrls == {Undefined, Str(<< >>), BaseUrl}

InitConfig ==
    /\ stats = InitialStats
    /\ jpc = [j \in Jobs |-> "unused"]
    /\ jout = [j \in Jobs |-> Pending]
    /\ img = [j \in Jobs |-> [s \in Sides |-> IdlePipeline]]
    /\ calls = [j \in Jobs |-> NoCalls]
    /\ poll = [j \in Jobs |-> NoPoll]
    /\ hist = NoneRecorded
    /\ vin = NoInput
    /\ vout = NoValidation
    /\ config \in { [LIGHTX_API_KEY |-> k, LIGHTX_BASE_URL |-> b] :
                        k \in ApiKeys, b \in BaseUrls }
    /\ ret = NoReturn
    /\ sub = NoSubmission
    /\ limiter = NoTraffic
    /\ admin = NoAdmin

NextConfig ==
    \/ IsConfigured
    \/ \E response \in ProbeResponses : TestConnection(response)

SpecConfig == InitConfig /\ [][NextConfig]_vars

----------------------------------------------------------------------------
(* One POST /submit request handled on an instance holding any of three    *)
(* keys, its face-swap job run against every answer of the environment     *)

SubmissionKeys == {Undefined, Key(15), Key(16)}

InitSubmission ==
    /\ stats = InitialStats
    /\ jpc = [j \in Jobs |-> IF j = SubmissionJob THEN "idle" ELSE "unused"]
    /\ jout = [j \in Jobs |-> Pending]
    /\ img = [j \in Jobs |-> [s \in Sides |-> IdlePipeline]]
    /\ calls = [j \in Jobs |-> NoCalls]
    /\ poll = [j \in Jobs |-> NoPoll]
    /\ hist = NoneRecorded
    /\ vin = NoInput
    /\ vout = NoValidation
    /\ config \in { [LIGHTX_API_KEY |-> k, LIGHTX_BASE_URL |-> BaseUrl] : k \in SubmissionKeys }
    /\ ret = NoReturn
    /\ sub = NoSubmission
    /\ limiter = NoTraffic
    /\ admin = NoAdmin

NextSubmission ==
    \/ \E form \in FormValidations, files \in FileValidations : HandleSubmission(form, files)
    \/ \E ok \in BOOLEAN : SourceHosted(ok)
    \/ \E ok \in BOOLEAN : TargetHosted(ok)
    \/ \E side \in Sides, response \in ImageResponses :
            ImageFetched(SubmissionJob, side, response)
    \/ \E side \in Sides, response \in UploadUrlResponses :
            UploadUrlAnswered(SubmissionJob, side, response)
    \/ \E side \in Sides, response \in PutResponses :
            PutAnswered(SubmissionJob, side, response)
    \/ \E response \in SwapResponses : SwapAnswered(SubmissionJob, response)
    \/ \E response \in StatusResponses, lat \in Latencies :
            StatusAnswered(SubmissionJob, response, lat)
    \/ SleepDone(SubmissionJob)
    \/ FaceSwapSettled
    \/ \E ok \in BOOLEAN : ResultHosted(ok)
    \/ \E answer \in InsertAnswers : SubmissionSaved(answer)
    \/ \E forwarded \in BOOLEAN : HandlerRejected(forwarded)

SpecSubmission == InitSubmission /\ [][NextSubmission]_vars

----------------------------------------------------------------------------
(* One performFaceSwap job on local images, each of its calls answered     *)
(* with a success or a failure, while isConfigured, testConnection and     *)
(* getStats are called on the same instance and a caller writes to the     *)
(* object getStats gave it                                                 *)

GoneJpg == CHOOSE f \in LocalFiles : f.path = "gone.jpg"

FrameSources == { [isUrl |-> FALSE, file |-> f] : f \in {FaceJpg, GoneJpg} }

FrameTickets ==
    TicketResponses \cup { r \in UploadUrlResponses : r.name = None /\ r.http = 403 }

FrameSubmissions ==
    SubmissionResponses \cup { r \in SwapResponses : r.name = "AbortError" }

FrameStatuses ==
    { r \in StatusResponses :
        \/ r.http = 500
        \/ r.statusCode = 2000 /\ r.status \in {"init", "failed"}
        \/ r.statusCode = 2000 /\ r.status = "active" /\ r.output # "" }

FrameProbes == { r \in ProbeResponses : r.name = "AbortError" \/ (r.http \in {200, 403} /\ r.json) }

NextFrame ==
    \/ \E source \in FrameSources, target \in FrameSources :
            PerformFaceSwap("j1", source, target)
    \/ \E side \in Sides, response \in FrameTickets : UploadUrlAnswered("j1", side, response)
    \/ \E side \in Sides, response \in PutResponses : PutAnswered("j1", side, response)
    \/ \E response \in FrameSubmissions : SwapAnswered("j1", response)
    \/ \E response \in FrameStatuses, lat \in Latencies : StatusAnswered("j1", response, lat)
    \/ SleepDone("j1")
    \/ IsConfigured
    \/ \E response \in FrameProbes : TestConnection(response)
    \/ GetStats
    \/ \E counter \in {"totalRequests", "successfulSwaps", "failedSwaps"} :
            ResultWritten(counter)

SpecFrame == Init /\ [][NextFrame]_vars

----------------------------------------------------------------------------
(* The rate limiter under requests of two IPs to the three limited routes  *)

MaxTraffic == 6
MaxTicks == 2

\* the clock is observed every half window
TickMs == windowMs \div 2

NextRateLimit ==
    \/ \E ip \in IPs, route \in Routes :
            limiter.requests < MaxTraffic /\ RateLimit(ip, route)
    \/ limiter.now < MaxTicks * TickMs /\ ClockAdvances(TickMs)

SpecRateLimit == Init /\ [][NextRateLimit]_vars

----------------------------------------------------------------------------
(* Two DELETE requests on a collection holding some submissions *)

StoredDigits == {"a", "b"}

\* the :id of a request: nothing, not an ObjectId, a stored id, an id never stored
RequestIds == { << >>, <<"z", "z">>, Oid("a"), Oid("b"), Oid("c") }

Collection(digits) ==
    [id \in { Oid(d) : d \in digits } |-> ImagesOf(CHOOSE d \in digits : Oid(d) = id)]

Hosted(digits) == UNION { { ImagesOf(d)[i] : i \in 1 .. 3 } : d \in digits }

InitAdmin ==
    /\ stats = InitialStats
    /\ jpc = [j \in Jobs |-> "unused"]
    /\ jout = [j \in Jobs |-> Pending]
    /\ img = [j \in Jobs |-> [s \in Sides |-> IdlePipeline]]
    /\ calls = [j \in Jobs |-> NoCalls]
    /\ poll = [j \in Jobs |-> NoPoll]
    /\ hist = NoneRecorded
    /\ vin = NoInput
    /\ vout = NoValidation
    /\ config = DefaultConfig
    /\ ret = NoReturn
    /\ sub = NoSubmission
    /\ limiter = NoTraffic
    /\ \E digits \in SUBSET StoredDigits :
            admin = [NoAdmin EXCEPT !.store = Collection(digits), !.host = Hosted(digits)]

NextAdmin ==
    \/ \E r \in AdminRequests, id \in RequestIds : DeleteSubmission(r, id)
    \/ \E r \in AdminRequests, dbOk \in BOOLEAN : FindAnswered(r, dbOk)
    \/ \E r \in AdminRequests, ok \in BOOLEAN : Destroyed(r, ok)
    \/ \E r \in AdminRequests, dbOk \in BOOLEAN : DeleteOneAnswered(r, dbOk)

SpecAdmin == InitAdmin /\ [][NextAdmin]_vars

----------------------------------------------------------------------------
(* _validateImageBuffer on its own, over buffers around the size limits    *)

BufferLengths ==
    {0, 3, 4, 500}
    \cup { MIN_FILE_SIZE + d - Delta : d \in 0 .. 2 * Delta }
    \cup { MAX_FILE_SIZE + d - Delta : d \in 0 .. 2 * Delta }

BufferHeads == { JpegHead, PngHead, GifHead, <<255, 216, 0, 0>> }

ContentTypes ==
    { ImageJpeg, <<"image/", "jpg">>, ImagePng, ImageGif,
      <<"image/", "jpeg", "; charset=binary">>, <<"application/", "octet-stream">> }

ValidateImageBuffer ==
    /\ ~vout.done
    /\ LET validation == _validateImageBuffer(vin.buffer, vin.contentType)
       IN  vout' = [done |-> TRUE, isValid |-> validation.isValid,
                    errors |-> validation.errors]
    /\ UNCHANGED <<stats, jpc, jout, img, calls, poll, hist, vin, config, ret, sub, router>>

InitValidate ==
    /\ stats = InitialStats
    /\ jpc = [j \in Jobs |-> "unused"]
    /\ jout = [j \in Jobs |-> Pending]
    /\ img = [j \in Jobs |-> [s \in Sides |-> IdlePipeline]]
    /\ calls = [j \in Jobs |-> NoCalls]
    /\ poll = [j \in Jobs |-> NoPoll]
    /\ hist = NoneRecorded
    /\ config = DefaultConfig
    /\ ret = NoReturn
    /\ sub = NoSubmission
    /\ limiter = NoTraffic
    /\ admin = NoAdmin
    /\ vin \in { [buffer |-> Buffer(len, head), contentType |-> contentType] :
                    len \in BufferLengths, head \in BufferHeads,
                    contentType \in ContentTypes }
    /\ vout = NoValidation

NextValidate == ValidateImageBuffer

SpecValidate == InitValidate /\ [][NextValidate]_vars

----------------------------------------------------------------------------
(* Properties *)

\* a delivered 2xx answer from the status endpoint with statusCode 2000
WellFormed(response) ==
    response.name = None /\ Ok(response) /\ response.statusCode = 2000

HasStatus(response, status) == WellFormed(response) /\ response.status = status

IsActiveWithOutput(response) == HasStatus(response, "active") /\ response.output # ""

Log(j) == poll[j].log

Polling(j) == poll[j].attempt >= 1

Settled(j) == jpc[j] \in {"resolved", "rejected"}

OnlyInit(j) == \A i \in DOMAIN Log(j) : HasStatus(Log(j)[i].response, "init")

\* job j takes a step in which a status answer is handled
Answered(j) == Len(poll'[j].log) = Len(poll[j].log) + 1

LastAnswer(j) == poll'[j].log[Len(poll'[j].log)]

\* once performFaceSwap has settled, it issues no call, waits no more and stays settled
StaysSettled(j) ==
    Settled(j) => calls'[j] = calls[j] /\ jpc'[j] = jpc[j] /\ jout'[j] = jout[j]

\* C1: while every status answer so far is a well-formed `init`, the poll has issued
\* at most MAX_RETRIES (5) status calls, is still running before the 5th answer, and
\* on the 5th answer has ended, after exactly 5 calls, with the exhaustion error.
C1_InitOnlyExhaustsAfterFive ==
    \A j \in Jobs : Polling(j) /\ OnlyInit(j) =>
        /\ calls[j].status <= MAX_RETRIES
        /\ Len(Log(j)) < MAX_RETRIES => ~Settled(j)
        /\ Len(Log(j)) = MAX_RETRIES =>
                /\ calls[j].status = MAX_RETRIES
                /\ calls[j].statusInFlight = 0
                /\ jout[j] = Rejected(Err("E_POLL_EXHAUSTED"))

C1_Witness ==
    \E j \in Jobs :
        /\ Len(Log(j)) = MAX_RETRIES /\ OnlyInit(j)
        /\ calls[j].status = MAX_RETRIES
        /\ jout[j] = Rejected(Err("E_POLL_EXHAUSTED"))

\* C2: the step that handles a status answer `active` with a non-empty output resolves
\* the job with that output, issues no status call and starts no wait, adds exactly 1
\* to successfulSwaps, leaves failedSwaps alone and, from statistics without a success,
\* sets averageProcessingTime to the elapsed time of this poll; nothing follows it.
C2_ActiveReturnsAtOnce ==
    [][\A j \in Jobs :
        /\ Answered(j) /\ IsActiveWithOutput(LastAnswer(j).response) =>
            /\ jout'[j] = Resolved(LastAnswer(j).response.output)
            /\ jpc'[j] = "resolved"
            /\ calls'[j].status = calls[j].status
            /\ calls'[j].sleeps = calls[j].sleeps
            /\ LastAnswer(j).wait = 0
            /\ stats'.successfulSwaps = stats.successfulSwaps + 1
            /\ stats'.failedSwaps = stats.failedSwaps
            /\ stats'.totalRequests = stats.totalRequests
            /\ stats.successfulSwaps = 0 /\ stats.averageProcessingTime = Rat(0, 1)
                    => stats'.averageProcessingTime = Rat(poll'[j].elapsed, 1)
        /\ jpc[j] = "resolved" => StaysSettled(j)
      ]_vars

C2_Witness ==
    \E j \in Jobs :
        /\ jpc[j] = "resolved" /\ Len(Log(j)) = 3
        /\ jout[j].url = Log(j)[3].response.output
        /\ calls[j].status = 3
        /\ stats.successfulSwaps = 1 /\ stats.failedSwaps = 0
        /\ stats.averageProcessingTime = Rat(poll[j].elapsed, 1)
        /\ poll[j].elapsed > 0

\* C3: the step that handles a well-formed status answer `failed`, on any attempt, adds
\* exactly 1 to failedSwaps, rejects the job with the processing-failed error, issues
\* no status call and starts no wait; nothing follows it.
C3_FailedIsTerminalCountedOnce ==
    [][\A j \in Jobs :
        /\ Answered(j) /\ HasStatus(LastAnswer(j).response, "failed") =>
            /\ stats'.failedSwaps = stats.failedSwaps + 1
            /\ stats'.successfulSwaps = stats.successfulSwaps
            /\ jout'[j] = Rejected(Err("E_PROCESSING_FAILED"))
            /\ jpc'[j] = "rejected"
            /\ calls'[j].status = calls[j].status
            /\ calls'[j].sleeps = calls[j].sleeps
            /\ LastAnswer(j).wait = 0
        /\ jpc[j] = "rejected" => StaysSettled(j)
      ]_vars

C3_Witness ==
    \E j \in Jobs :
        /\ jout[j] = Rejected(Err("E_PROCESSING_FAILED"))
        /\ Len(Log(j)) = 4 /\ calls[j].status = 4 /\ calls[j].sleeps = 3
        /\ stats.failedSwaps = 1

\* C4 (as claimed): whenever the poll is rejected on its 5th attempt by anything other
\* than a `failed` status, the rejecting step adds exactly 1 to failedSwaps.
C4_ExhaustionAlwaysCounted ==
    [][\A j \in Jobs :
        ( /\ jpc[j] \in {"status", "sleep"} /\ jpc'[j] = "rejected"
          /\ poll[j].attempt = MAX_RETRIES
          /\ jout'[j].error # Err("E_PROCESSING_FAILED") )
        => stats'.failedSwaps = stats.failedSwaps + 1
      ]_vars

\* C5: a job has issued its POST /v1/face-swap only if both image pipelines have
\* completed (each after its one PUT), and has issued a status call only if the
\* submission returned an order id.
C5_SubmitAfterBothImages ==
    \A j \in Jobs :
        /\ calls[j].submit > 0 =>
              \A s \in Sides : img[j][s].pc = "done" /\ img[j][s].puts = 1
                                /\ img[j][s].imageUrl # NoUrl
        /\ calls[j].status > 0 => calls[j].submit = 1 /\ poll[j].orderId # ""
        /\ jpc[j] = "submit" => calls[j].status = 0

C5_Witness ==
    \E j \in Jobs :
        /\ calls[j].submit = 1 /\ calls[j].status = 1 /\ poll[j].orderId = "order"
        /\ \A s \in Sides : img[j][s].pc = "done"

\* C6: a job one of whose image pipelines has failed is rejected and has issued neither
\* a POST /v1/face-swap nor a status call, whatever the other pipeline has done since.
C6_NoSubmitAfterImageFailure ==
    \A j \in Jobs :
        (\E s \in Sides : img[j][s].pc = "failed") =>
            /\ jpc[j] = "rejected"
            /\ calls[j].submit = 0
            /\ calls[j].status = 0
            /\ poll[j] = NoPoll

C6_Witness ==
    \E j \in Jobs :
        /\ img[j]["source"].pc = "failed" /\ img[j]["target"].pc = "done"
        /\ jpc[j] = "rejected" /\ calls[j].submit = 0

\* the pipeline of side s of job j fails in this step
FailsNow(j, s) == img[j][s].pc # "failed" /\ img'[j][s].pc = "failed"

C8_PollsSequential ==
    \A j \in Jobs :
        /\ calls[j].statusInFlight \in {0, 1}
        /\ calls[j].statusInFlight = 1 <=> jpc[j] = "status"
        /\ calls[j].status = Len(Log(j)) + calls[j].statusInFlight
        /\ Polling(j) /\ ~Settled(j) => poll[j].attempt = calls[j].status
        /\ jpc[j] = "sleep" =>
              /\ calls[j].statusInFlight = 0
              /\ Log(j)[Len(Log(j))].kind = "sleep"
              /\ poll[j].wait = Log(j)[Len(Log(j))].wait /\ poll[j].wait > 0

C8_Witness ==
    \E j \in Jobs :
        /\ jpc[j] = "status" /\ poll[j].attempt = 3
        /\ calls[j].status = 3 /\ calls[j].statusInFlight = 1 /\ Len(Log(j)) = 2

\* C9: an image whose bytes failed validation was validated once, and no upload-URL
\* request and no PUT was issued for it; its job is rejected and has issued no POST
\* /v1/face-swap.
C9_ValidationFailureBeforeNetwork ==
    \A j \in Jobs : \A s \in Sides :
        img[j][s].error.kind = "E_VALIDATION" =>
            /\ img[j][s].pc = "failed"
            /\ img[j][s].validations = 1
            /\ img[j][s].urlRequests = 0
            /\ img[j][s].puts = 0
            /\ jpc[j] = "rejected"
            /\ calls[j].submit = 0

C9_Witness ==
    \E j \in Jobs :
        /\ img[j]["target"].error = ValidationError(<<"undersize">>)
        /\ img[j]["source"].pc = "done"
        /\ img[j]["target"].urlRequests = 0
        /\ calls[j].submit = 0

HasSizeViolation(errors) ==
    \E i \in DOMAIN errors : errors[i] \in {"oversize", "undersize"}

\* C10: a buffer shorter than 1024 bytes or longer than 5*1024*1024 bytes is invalid
\* with a size violation among its errors, whatever its content type and bytes; a
\* buffer of exactly 1024 or exactly 5*1024*1024 bytes gets no size violation.
C10_SizeLimits ==
    vout.done =>
        LET len == vin.buffer.len
        IN  /\ len < 1024 \/ len > 5 * 1024 * 1024 =>
                    ~vout.isValid /\ HasSizeViolation(vout.errors)
            /\ len \in {1024, 5 * 1024 * 1024} => ~HasSizeViolation(vout.errors)

C10_Witness ==
    /\ vout.done /\ ~vout.isValid
    /\ vin.buffer = Buffer(1023, JpegHead) /\ vin.contentType = ImageJpeg
    /\ vout.errors = <<"undersize">>

\* the buffer begins with the given bytes
StartsWith(buffer, bytes) ==
    /\ Len(buffer.head) >= Len(bytes)
    /\ \A i \in DOMAIN bytes : buffer.head[i] = bytes[i]

Count(errors, e) == Cardinality({ i \in DOMAIN errors : errors[i] = e })

\* C11: a buffer that begins FF D8 FF declared image/png, and a buffer that begins
\* 89 50 4E 47 declared image/jpeg or image/jpg, is invalid with the signature
\* violation among its errors, whatever its length.
C11_SignatureMustMatchDeclaredType ==
    vout.done =>
        /\ StartsWith(vin.buffer, <<255, 216, 255>>) /\ vin.contentType = <<"image/", "png">>
                => ~vout.isValid /\ Count(vout.errors, "corrupt") = 1
        /\ ( /\ StartsWith(vin.buffer, <<137, 80, 78, 71>>)
             /\ vin.contentType \in { <<"image/", "jpeg">>, <<"image/", "jpg">> } )
                => ~vout.isValid /\ Count(vout.errors, "corrupt") = 1

C11_Witness ==
    /\ vout.done /\ ~vout.isValid
    /\ vin.buffer = Buffer(4, JpegHead) /\ vin.contentType = ImagePng
    /\ vout.errors = <<"undersize", "corrupt">>

\* the checks the input of the validation violates, in the order they are made
Violated(buffer, contentType) ==
    [oversize |-> buffer.len > 5 * 1024 * 1024,
     undersize |-> buffer.len < 1024,
     unsupported |-> contentType \notin { <<"image/", "jpeg">>, <<"image/", "jpg">>,
                                          <<"image/", "png">> },
     corrupt |-> ~_isValidImageBuffer(buffer, contentType)]

\* C12: the error list of a validation holds exactly one entry for each check the
\* input violates (oversize, undersize, unsupported content type, signature mismatch)
\* and none for a check it satisfies, so that a first violation does not hide a later
\* one; isValid is true exactly when the list is empty.
C12_EveryViolationReported ==
    vout.done =>
        LET violated == Violated(vin.buffer, vin.contentType)
        IN  /\ \A e \in DOMAIN violated :
                    Count(vout.errors, e) = IF violated[e] THEN 1 ELSE 0
            /\ \A i \in DOMAIN vout.errors : vout.errors[i] \in DOMAIN violated
            /\ vout.isValid <=> vout.errors = << >>

C12_Witness ==
    /\ vout.done /\ ~vout.isValid
    /\ vin.buffer = Buffer(500, GifHead) /\ vin.contentType = ImageGif
    /\ vout.errors = <<"undersize", "unsupported", "corrupt">>

Pipelines == Jobs \X Sides

Pipe(js) == img[js[1]][js[2]]

\* C13: for every image of every job, whatever has failed, the image was fetched or
\* read at most once, at most one upload-URL request and at most one PUT were issued
\* for it, and each step was taken only after the one before it; the PUT of a
\* pipeline went to the upload URL that same pipeline obtained, and no upload URL is
\* the target of the PUT of any other image or job.
C13_EachUploadStepAtMostOnce ==
    /\ \A js \in Pipelines :
            /\ Pipe(js).acquisitions \in {0, 1}
            /\ Pipe(js).urlRequests \in {0, 1}
            /\ Pipe(js).puts \in {0, 1}
            /\ Pipe(js).urlRequests <= Pipe(js).acquisitions
            /\ Pipe(js).puts <= Pipe(js).urlRequests
            /\ Pipe(js).puts = 1 <=> Pipe(js).putTarget # NoUrl
            /\ Pipe(js).puts = 1 => Pipe(js).putTarget = Pipe(js).uploadUrl
    /\ \A js \in Pipelines, kt \in Pipelines :
            Pipe(js).uploadUrl # NoUrl /\ Pipe(kt).putTarget = Pipe(js).uploadUrl
                => kt = js

C13_Witness ==
    \E j \in Jobs :
        /\ img[j]["source"].pc = "failed" /\ img[j]["source"].error = Err("E_S3_FAILED")
        /\ img[j]["source"].puts = 1 /\ img[j]["source"].urlRequests = 1
        /\ img[j]["target"].pc = "done" /\ img[j]["target"].puts = 1
        /\ img[j]["target"].putTarget # img[j]["source"].putTarget
        /\ jpc[j] = "rejected"

\* a delivered 2xx answer to the submission whose envelope has statusCode 2000 and an
\* order id
Accepted(response) ==
    /\ response.name = None /\ response.http \in 200 .. 299
    /\ response.statusCode = 2000 /\ response.orderId # ""

\* C14: the step in which a job issues its POST /v1/face-swap adds exactly 1 to
\* totalRequests and nothing to the other counters. The step that handles the answer
\* leaves totalRequests alone and: on an accepted answer keeps failedSwaps, keeps the
\* job running and hands the order id to the poll; on every other answer (thrown,
\* non-2xx, or an envelope without statusCode 2000 and order id) adds exactly 1 to
\* failedSwaps and rejects the job with an error.
C14_SubmissionAccounting ==
    [][\A j \in Jobs :
        /\ calls'[j].submit # calls[j].submit =>
              /\ calls'[j].submit = 1 /\ jpc'[j] = "submit"
              /\ stats' = [stats EXCEPT !.totalRequests = @ + 1]
        /\ \A response \in SwapResponses : SwapAnswered(j, response) =>
              /\ stats'.totalRequests = stats.totalRequests
              /\ stats'.successfulSwaps = stats.successfulSwaps
              /\ IF Accepted(response)
                 THEN /\ stats'.failedSwaps = stats.failedSwaps
                      /\ poll'[j].orderId = response.orderId
                      /\ jpc'[j] = "status" /\ jout'[j] = Pending
                 ELSE /\ stats'.failedSwaps = stats.failedSwaps + 1
                      /\ jpc'[j] = "rejected"
                      /\ jout'[j].state = "rejected" /\ jout'[j].error # NoError
                      /\ calls'[j].status = 0
      ]_vars

C14_Witness ==
    \E j \in Jobs :
        /\ jout[j] = Rejected(Err("E_SWAP_INVALID"))
        /\ calls[j].submit = 1 /\ calls[j].status = 0
        /\ stats.totalRequests = 1 /\ stats.failedSwaps = 1 /\ stats.successfulSwaps = 0

\* C15: at every moment, whichever jobs have succeeded or failed since the last reset
\* and however their steps interleaved, successfulSwaps is the number of elapsed
\* times recorded since the reset and averageProcessingTime * successfulSwaps is
\* their sum; a step that counts a failure leaves the average and successfulSwaps
\* as they were.
C15_AverageIsMeanOfRecorded ==
    /\ [](/\ stats.successfulSwaps = hist.n
          /\ stats.averageProcessingTime.num * stats.successfulSwaps
                = hist.sum * stats.averageProcessingTime.den)
    /\ [][stats'.failedSwaps > stats.failedSwaps =>
            /\ stats'.averageProcessingTime = stats.averageProcessingTime
            /\ stats'.successfulSwaps = stats.successfulSwaps]_vars

C15_Witness ==
    /\ stats.successfulSwaps = 2 /\ stats.failedSwaps = 1 /\ stats.totalRequests = 3
    /\ hist.sum = 3
    /\ stats.averageProcessingTime = [num |-> 3, den |-> 2]
    /\ \A j \in Jobs : Settled(j)

Counters == {"totalRequests", "successfulSwaps", "failedSwaps"}

\* C16: a step in which totalRequests, successfulSwaps or failedSwaps gets smaller is
\* a resetStats call, and a resetStats call leaves all three counters and
\* averageProcessingTime at 0.
C16_CountersOnlyResetDecreases ==
    [][/\ (\E c \in Counters : stats'[c] < stats[c]) => ResetStats
       /\ ResetStats =>
            /\ \A c \in Counters : stats'[c] = 0
            /\ stats'.averageProcessingTime = Rat(0, 1)
      ]_vars

C16_Witness ==
    \E j \in Jobs :
        /\ jpc[j] = "resolved" /\ calls[j].submit = 1 /\ poll[j].elapsed > 0
        /\ \A c \in Counters : stats[c] = 0
        /\ stats.averageProcessingTime = Rat(0, 1)

\* C17 (as claimed): on an instance that starts with fresh statistics and is never
\* reset, a performFaceSwap call that has terminated has changed at least one counter.
C17_EveryJobMutatesStats ==
    \A j \in Jobs : Settled(j) =>
        \E c \in Counters : stats[c] # InitialStats[c]

KeyOf(cfg) == cfg.LIGHTX_API_KEY

\* C18: isConfigured returns true exactly when the API key is present, non-empty and at
\* least 16 characters long and the base URL is set: false for the key "short" with a
\* base URL, true for a key of 20 characters with a base URL; the call changes nothing
\* of the client's state.
C18_IsConfiguredIffLongKeyAndBaseUrl ==
    /\ [](ret.op = "isConfigured" =>
            /\ ret.value <=>
                  /\ KeyOf(config).defined /\ KeyOf(config).chars # << >>
                  /\ Len(KeyOf(config).chars) >= 16
                  /\ config.LIGHTX_BASE_URL.defined /\ config.LIGHTX_BASE_URL.chars # << >>
            /\ KeyOf(config).chars = <<"s", "h", "o", "r", "t">> => ~ret.value
            /\ Len(KeyOf(config).chars) = 20 /\ config.LIGHTX_BASE_URL = BaseUrl => ret.value)
    /\ [][IsConfigured =>
            UNCHANGED <<stats, config, jpc, jout, img, calls, poll, hist>>]_vars

C18_Witness ==
    /\ ret.op = "isConfigured" /\ ~ret.value
    /\ KeyOf(config) = Str(<<"s", "h", "o", "r", "t">>)
    /\ config.LIGHTX_BASE_URL = BaseUrl

\* C19 (as claimed): testConnection resolves to a boolean, which is true whenever the
\* probe was answered with HTTP status 200, whatever the body, and false when it was
\* answered with 403 or any other status or was not answered (thrown, timed out).
C19_ProbeTrueOnEvery200 ==
    ret.op = "testConnection" =>
        /\ ret.value \in BOOLEAN
        /\ ret.value <=> (ret.response.name = None /\ ret.response.http = 200)

\* C20: a performFaceSwap call is pending, resolved or rejected. Resolved, its last
\* status answer was a well-formed `active` with a non-empty output after an accepted
\* submission, its value is exactly that output and it carries no error; rejected, it
\* carries an error and no URL. On statistics that started fresh, a resolved call has
\* left successfulSwaps at 1 (and, resolved by its first status answer, totalRequests
\* at 1 and failedSwaps at 0).
C20_ResolvesOnlyWithActiveOutput ==
    \A j \in Jobs :
        /\ jout[j].state \in {"pending", "resolved", "rejected"}
        /\ jout[j].state = "resolved" <=> jpc[j] = "resolved"
        /\ jout[j].state = "rejected" <=> jpc[j] = "rejected"
        /\ jout[j].state = "resolved" =>
              /\ Len(Log(j)) >= 1 /\ calls[j].submit = 1 /\ poll[j].orderId # ""
              /\ IsActiveWithOutput(Log(j)[Len(Log(j))].response)
              /\ jout[j].url = Log(j)[Len(Log(j))].response.output
              /\ jout[j].url # "" /\ jout[j].url # None
              /\ jout[j].error = NoError
              /\ stats.successfulSwaps = 1
              /\ Len(Log(j)) = 1 => stats.totalRequests = 1 /\ stats.failedSwaps = 0
        /\ jout[j].state = "rejected" =>
              /\ jout[j].url = None /\ jout[j].error # NoError
              /\ stats.successfulSwaps = 0
        /\ jout[j].state = "pending" => jout[j] = Pending

C20_Witness ==
    \E j \in Jobs :
        /\ jout[j] = Resolved("https://cdn/out.jpg")
        /\ Len(Log(j)) = 1 /\ calls[j].status = 1
        /\ \A s \in Sides : img[j][s].pc = "done"
        /\ stats.successfulSwaps = 1 /\ stats.totalRequests = 1

Generic == {GenericUnexpected, GenericFaceSwap, GenericUpload, GenericDatabase}

\* C21 (as claimed): a request refused for its form input or its files, for an image
\* the client's validation rejected, or because the client is not configured, is
\* answered with a 4xx status and the text of the error; a request that failed for
\* any other reason is answered with a 5xx status and one of the generic messages.
C21_ErrorClassesMapToStatus ==
    /\ sub.pc # "unanswered"
    /\ sub.pc = "responded" /\ sub.status # 200 =>
        IF sub.thrown = NoError
        THEN sub.status \in 400 .. 499 /\ sub.error # << >>
        ELSE IF sub.thrown.kind \in {"E_VALIDATION", "E_NOT_CONFIGURED"}
        THEN sub.status \in 400 .. 499 /\ sub.error = MessageOf(sub.thrown)
        ELSE sub.status \in 500 .. 599 /\ sub.error \in Generic

\* C22: on an instance for which isConfigured() is false, the handler has made no
\* image-host upload, has not called performFaceSwap (the job has not started and has
\* issued no call) and has created no submission record; a request that passed both
\* validations has ended in the catch block with the configuration error.
C22_UnconfiguredShortCircuits ==
    ~isConfigured(config) =>
        /\ sub.hostUploads = 0 /\ sub.jobs = 0 /\ sub.records = 0
        /\ jpc[SubmissionJob] = "idle" /\ calls[SubmissionJob] = NoCalls
        /\ \A side \in Sides : img[SubmissionJob][side] = IdlePipeline
        /\ sub.pc \in {"idle", "responded", "rejected", "unanswered"}
        /\ (sub.pc # "idle" /\ sub.status # 400) => sub.thrown = Err("E_NOT_CONFIGURED")

C22_Witness ==
    /\ config.LIGHTX_API_KEY = Key(15)
    /\ sub.pc = "rejected" /\ sub.thrown = Err("E_NOT_CONFIGURED")
    /\ sub.hostUploads = 0 /\ sub.jobs = 0 /\ sub.records = 0
    /\ jpc[SubmissionJob] = "idle"

\* the error kind the upload-URL request's answer is to be mapped to; None for a ticket
TicketOutcome(response) ==
    IF response.name = "AbortError" THEN "E_URL_TIMEOUT"
    ELSE IF response.name # None THEN response.name
    ELSE IF response.http = 403 THEN "E_URL_403"
    ELSE IF response.http = 429 THEN "E_URL_429"
    ELSE IF response.http = 402 THEN "E_URL_402"
    ELSE IF response.http \notin 200 .. 299 THEN "E_URL_HTTP"
    ELSE IF response.statusCode # 2000 \/ ~response.uploadImage \/ ~response.imageUrl
         THEN "E_URL_INVALID"
    ELSE None

\* C23: the step that handles the answer to an upload-URL request fails the image with
\* the error of that answer's class (timeout; HTTP 403 authentication; 429 rate limit;
\* 402 billing; any other non-2xx upstream; a 2xx envelope lacking statusCode 2000, the
\* upload URL or the image URL invalid-response; six different errors) and without a
\* PUT, and goes on to the PUT with a ticket only when the envelope has all three.
C23_UploadUrlOutcomeMapping ==
    [][\A j \in Jobs, side \in Sides, response \in UploadUrlResponses :
        UploadUrlAnswered(j, side, response) =>
            LET p == img'[j][side]
            IN  IF TicketOutcome(response) = None
                THEN /\ p.pc = "put" /\ p.error = NoError /\ p.puts = 1
                     /\ p.uploadUrl # NoUrl /\ p.imageUrl # NoUrl
                     /\ response.statusCode = 2000
                     /\ response.uploadImage /\ response.imageUrl
                ELSE /\ p.pc = "failed" /\ p.error.kind = TicketOutcome(response)
                     /\ p.puts = 0 /\ p.uploadUrl = NoUrl /\ p.imageUrl = NoUrl
      ]_vars

C23_Witness ==
    \E j \in Jobs :
        /\ img[j]["source"].error = Err("E_URL_INVALID")
        /\ img[j]["source"].urlRequests = 1 /\ img[j]["source"].puts = 0
        /\ img[j]["target"].error = Err("E_URL_429")
        /\ jout[j] \in {Rejected(Err("E_URL_INVALID")), Rejected(Err("E_URL_429"))}

InFlight(p) == p.pc \in {"fetch", "urlreq", "put"}

\* C24: the step in which the answer to one image's call makes its pipeline fail leaves
\* the other image's pipeline exactly as it was (in flight, if it was); and a step that
\* a pipeline takes after its job was rejected without a submission is a step of a
\* pipeline that was in flight, and changes neither the job's outcome, nor the calls
\* the job has issued (no submission, no status call), nor the statistics.
C24_NoCrossCancellation ==
    [][\A j \in Jobs :
        /\ \A s \in Sides :
              FailsNow(j, s) /\ InFlight(img[j][s]) =>
                    img'[j][Other(s)] = img[j][Other(s)]
        /\ jpc[j] = "rejected" /\ calls[j].submit = 0 /\ img'[j] # img[j] =>
              /\ \E s \in Sides :
                    /\ InFlight(img[j][s]) /\ img'[j][s] # img[j][s]
                    /\ img'[j][Other(s)] = img[j][Other(s)]
              /\ jpc'[j] = "rejected" /\ jout'[j] = jout[j]
              /\ calls'[j] = NoCalls
              /\ stats' = stats
      ]_vars

C24_Witness ==
    \E j \in Jobs :
        /\ img[j]["source"].error = Err("E_FILE_NOT_FOUND")
        /\ jout[j] = Rejected(Err("E_FILE_NOT_FOUND"))
        /\ img[j]["target"].pc = "done" /\ img[j]["target"].puts = 1
        /\ img[j]["target"].acquisitions = 1 /\ img[j]["target"].urlRequests = 1
        /\ calls[j] = NoCalls /\ stats = InitialStats

Submitted == { j \in Jobs : calls[j].submit > 0 }

\* C25: with jobs running concurrently and no reset, in every interleaving of their
\* steps each job has issued at most one submission, totalRequests is the number of
\* submissions issued and successfulSwaps the number of jobs that have resolved (which
\* is also the number of elapsed times that went into the average): no update is lost.
C25_NoLostUpdate ==
    /\ \A j \in Jobs : calls[j].submit \in {0, 1}
    /\ stats.totalRequests = Cardinality(Submitted)
    /\ stats.successfulSwaps = Cardinality({ j \in Jobs : jpc[j] = "resolved" })
    /\ stats.successfulSwaps = hist.n

C25_Witness ==
    /\ jpc["j1"] = "resolved" /\ jpc["j2"] = "status" /\ jpc["j3"] = "submit"
    /\ stats.totalRequests = 3 /\ stats.successfulSwaps = 1 /\ stats.failedSwaps = 0

\* the waits of the two curves after attempts 1..4, in tenths of a millisecond
HttpFailureCurve == <<45000, 67500, 100000, 100000>>
ExceptionCurve == <<36000, 43200, 51840, 62208>>

Thrown(response) == response.name # None
BadEnvelope(response) ==
    response.name = None /\ Ok(response) /\ response.statusCode # 2000
NonOk(response) == response.name = None /\ ~Ok(response)

\* the wait the outcome of attempt k (1..4) calls for
WaitAfter(k, response) ==
    IF NonOk(response) THEN HttpFailureCurve[k]
    ELSE IF Thrown(response) \/ BadEnvelope(response) THEN ExceptionCurve[k]
    ELSE 30000

Waits(j) == Cardinality({ i \in DOMAIN Log(j) : Log(j)[i].kind = "sleep" })

\* C26: the i-th status answer of a job is the answer to attempt i; an attempt k <= 4
\* that is followed by attempt k+1 is followed by exactly one wait (the job has slept
\* once per such attempt, never twice, never at once), and the length of that wait is
\* fixed by the outcome of attempt k alone: the 1.5-curve value after a non-2xx answer,
\* the 1.2-curve value after a thrown exception or an envelope without statusCode 2000,
\* 3000 ms after status init or any other non-terminal status.
C26_OneWaitByOutcome ==
    \A j \in Jobs :
        /\ calls[j].sleeps = Waits(j)
        /\ calls[j].status = poll[j].attempt
        /\ poll[j].attempt \in {Len(Log(j)), Len(Log(j)) + 1}
        /\ \A i \in DOMAIN Log(j) :
              /\ Log(j)[i].attempt = i
              /\ i < poll[j].attempt => Log(j)[i].kind = "sleep"
              /\ (i <= 4 /\ Log(j)[i].kind = "sleep")
                    => Log(j)[i].wait = WaitAfter(i, Log(j)[i].response)

C26_Witness ==
    \E j \in Jobs :
        /\ jpc[j] = "status" /\ poll[j].attempt = 5 /\ calls[j].sleeps = 4
        /\ NonOk(Log(j)[1].response) /\ Log(j)[1].wait = 45000
        /\ Thrown(Log(j)[2].response) /\ Log(j)[2].wait = 43200
        /\ HasStatus(Log(j)[3].response, "init") /\ Log(j)[3].wait = 30000
        /\ BadEnvelope(Log(j)[4].response) /\ Log(j)[4].wait = 62208

\* C27: the answer to the 5th status call is never followed by a wait, whatever it
\* was: a job never sleeps after attempt 5 (so it sleeps at most four times), and in
\* particular status init or an unrecognised status on attempt 5 starts no 3-second
\* sleep before the terminal error.
C27_NoWaitAfterFinalAttempt ==
    \A j \in Jobs :
        /\ calls[j].sleeps <= MAX_RETRIES - 1
        /\ \A i \in DOMAIN Log(j) :
              Log(j)[i].attempt = MAX_RETRIES => Log(j)[i].kind # "sleep"

\* a well-formed answer that is neither active with an output, nor failed, nor init
StillPending(response) ==
    /\ WellFormed(response)
    /\ ~IsActiveWithOutput(response)
    /\ response.status \notin {"failed", "init"}

\* C28: a status answer that says active without an output, or carries a status other
\* than active, failed and init, is not terminal: the step that handles it leaves every
\* counter and the job's result unchanged and puts the job into the poll-interval wait
\* of an unrecognised status; and when a wait after an attempt k < 5 ends, the job
\* issues status call k+1.
C28_ActiveWithoutOutputStillPending ==
    [][\A j \in Jobs :
          /\ (Answered(j) /\ StillPending(LastAnswer(j).response))
                => /\ stats' = stats
                   /\ jout'[j] = jout[j]
                   /\ jpc'[j] = "sleep"
                   /\ LastAnswer(j).wait = PollIntervalWait
          /\ (jpc[j] = "sleep" /\ poll[j].attempt < MAX_RETRIES /\ jpc'[j] # "sleep")
                => /\ jpc'[j] = "status"
                   /\ poll'[j].attempt = poll[j].attempt + 1
                   /\ calls'[j].status = calls[j].status + 1]_vars

C28_Witness ==
    \E j \in Jobs :
        /\ jpc[j] = "status" /\ poll[j].attempt = 3
        /\ HasStatus(Log(j)[1].response, "active") /\ Log(j)[1].response.output = ""
        /\ HasStatus(Log(j)[2].response, "queued")
        /\ stats.totalRequests = 1 /\ stats.successfulSwaps = 0 /\ stats.failedSwaps = 0

\* the try block throws on this answer to attempt k: the fetch threw, the envelope is
\* not statusCode 2000, the status is failed, or the 5th answer is not 2xx
Raises(response, k) ==
    \/ Thrown(response)
    \/ BadEnvelope(response)
    \/ HasStatus(response, "failed")
    \/ NonOk(response) /\ k = MAX_RETRIES

\* C29: an exception raised while attempt k < 5 is handled, other than the
\* processing-failed error of status failed, is swallowed: the job is not rejected, it
\* waits, and the wait is followed by attempt k+1. An exception raised on attempt 5
\* rejects the job, and so does the processing-failed error on any attempt.
C29_SwallowOnlyBeforeFinalAttempt ==
    [][\A j \in Jobs :
          /\ Answered(j) /\ Raises(LastAnswer(j).response, LastAnswer(j).attempt)
                => IF \/ LastAnswer(j).attempt = MAX_RETRIES
                      \/ HasStatus(LastAnswer(j).response, "failed")
                   THEN jpc'[j] = "rejected" /\ jout'[j].error.kind # None
                   ELSE jpc'[j] = "sleep" /\ jout'[j] = jout[j]
          /\ (jpc[j] = "sleep" /\ jpc'[j] # "sleep")
                => \/ jpc'[j] = "status" /\ poll'[j].attempt = poll[j].attempt + 1
                   \/ jpc'[j] = "rejected"]_vars

\* what a polling job has done so far: calls issued, waits started, and whether it settled
Progress(j) == calls[j].status + calls[j].sleeps + (IF Settled(j) THEN 1 ELSE 0)

\* C30: a job issues at most 5 status calls and starts at most 5 waits, none longer
\* than 10000 ms; its attempt counter never passes 5 and the i-th answer it handles is
\* the answer to attempt i (a non-2xx answer advances the counter like any other).
\* Every step of a polling job issues a call, starts a wait or settles the job, so
\* that under any sequence of answers polling ends after at most 11 such steps.
C30_PollingBounded ==
    /\ [](\A j \in Jobs :
            /\ calls[j].status <= MAX_RETRIES
            /\ calls[j].sleeps <= MAX_RETRIES
            /\ poll[j].attempt <= MAX_RETRIES
            /\ Len(Log(j)) <= MAX_RETRIES
            /\ \A i \in DOMAIN Log(j) :
                  /\ Log(j)[i].attempt = i
                  /\ Log(j)[i].wait <= Tenths(10000))
    /\ [][\A j \in Jobs :
            (Polling(j) /\ <<jpc[j], poll[j], calls[j]>> # <<jpc'[j], poll'[j], calls'[j]>>)
                => /\ Progress(j)' > Progress(j)
                   /\ Progress(j)' <= 2 * MAX_RETRIES + 1]_vars

C30_Witness ==
    \E j \in Jobs :
        /\ jpc[j] = "rejected" /\ jout[j].error.kind = "E_POLL_EXHAUSTED"
        /\ calls[j].status = 5 /\ calls[j].sleeps = 5
        /\ NonOk(Log(j)[1].response) /\ NonOk(Log(j)[3].response)
        /\ Log(j)[3].wait = 100000
        /\ Thrown(Log(j)[2].response) /\ BadEnvelope(Log(j)[4].response)
        /\ HasStatus(Log(j)[5].response, "active")

\* the magic number of a declared content type; none for any other type
MagicOf(contentType) ==
    IF contentType \in { <<"image/", "jpeg">>, <<"image/", "jpg">> } THEN <<255, 216, 255>>
    ELSE IF contentType = <<"image/", "png">> THEN <<137, 80, 78, 71>>
    ELSE << >>

ImagePayload(buffer, contentType) ==
    /\ 1024 <= buffer.len /\ buffer.len <= 5 * 1024 * 1024
    /\ MagicOf(contentType) # << >>
    /\ StartsWith(buffer, MagicOf(contentType))

\* C31: a validation answers isValid exactly when the length is within 1024 .. 5 MB,
\* the declared content type is image/jpeg, image/jpg or image/png and the buffer
\* begins with the magic number of that declared type; a content type that names
\* neither jpeg nor png (the lenient either-signature branch) is never valid; and the
\* buffer and content type of every image for which an upload-URL request was issued
\* and is still being processed satisfy the same condition.
C31_ValidIffImagePayload ==
    /\ vout.done =>
          /\ vout.isValid <=> ImagePayload(vin.buffer, vin.contentType)
          /\ vout.isValid =>
                \E word \in {"jpeg", "jpg", "png"} : Includes(vin.contentType, word)
    /\ \A js \in Pipelines :
          Pipe(js).pc \in {"urlreq", "put"}
              => ImagePayload(Pipe(js).buffer, Pipe(js).contentType)

C31_Witness ==
    /\ vout.done /\ vout.isValid
    /\ vin.buffer = Buffer(MIN_FILE_SIZE, PngHead) /\ vin.contentType = ImagePng

\* C32: in every reachable state, with jobs and resetStats calls interleaved in any
\* way, the swaps counted as finished do not outnumber the requests counted:
\* successfulSwaps + failedSwaps <= totalRequests.
C32_FinishedNeverExceedRequests ==
    stats.successfulSwaps + stats.failedSwaps <= stats.totalRequests

\* the admitted POST /submit requests of ip with a timestamp in the window of
\* windowMs that ends at time t: (t - windowMs, t]
AdmittedInWindow(ip, t) ==
    { k \in DOMAIN limiter.seen[ip] :
        /\ limiter.seen[ip][k].admitted
        /\ limiter.seen[ip][k].time > t - windowMs
        /\ limiter.seen[ip][k].time <= t }

\* C33: for every IP, every window of 15 minutes (taken as ending at the time of one
\* of its admitted POST /submit requests, the start excluded) holds at most 5 admitted
\* POST /submit requests; and a request the limiter does not pass on is answered 429
\* and leaves rateLimitMap as it was, while a request it passes on gets no response
\* from the limiter.
C33_AtMostFivePerWindow ==
    /\ [](\A ip \in IPs : \A k \in DOMAIN limiter.seen[ip] :
            limiter.seen[ip][k].admitted
                => Cardinality(AdmittedInWindow(ip, limiter.seen[ip][k].time)) <= 5)
    /\ [][limiter'.requests = limiter.requests + 1
            => IF limiter'.last.next
               THEN limiter'.last.status = 0
               ELSE /\ limiter'.last.status = 429
                    /\ limiter'.rateLimitMap = limiter.rateLimitMap]_vars

C33_Witness ==
    \E ip \in IPs :
        /\ Len(limiter.seen[ip]) = 6
        /\ \A k \in 1 .. 5 : limiter.seen[ip][k] = [time |-> 0, admitted |-> TRUE]
        /\ limiter.seen[ip][6] = [time |-> TickMs, admitted |-> FALSE]
        /\ limiter.last = [ip |-> ip, route |-> "submit", status |-> 429, next |-> FALSE]
        /\ Len(limiter.rateLimitMap[ip]) = 5

\* the POST /submit requests ip made in the last windowMs
SubmitsInLastWindow(ip) ==
    { k \in DOMAIN limiter.seen[ip] : limiter.seen[ip][k].time > limiter.now - windowMs }

\* C34: the budget of POST /submit is consumed by POST /submit requests only: a
\* POST /submit request of an IP that made fewer than 5 POST /submit requests in the
\* last 15 minutes is passed on by the limiter, whatever that IP requested from
\* /download/:id/:type and DELETE /admin/submissions/:id.
C34_SubmitBudgetIndependent ==
    [][\A ip \in IPs :
          ( /\ limiter'.requests = limiter.requests + 1
            /\ limiter'.last.ip = ip /\ limiter'.last.route = "submit"
            /\ Cardinality(SubmitsInLastWindow(ip)) < 5 )
                => limiter'.last.next]_vars

\* C38: a DELETE request whose id is a well-formed ObjectId that findOne matched with
\* no stored submission is answered 404 with the error "Submission not found".
C38_MissingSubmissionGets404 ==
    \A r \in AdminRequests :
        (admin.req[r].pc = "done" /\ admin.req[r].found = "no")
            => /\ admin.req[r].res.status = 404
               /\ admin.req[r].res.error = "Submission not found"

\* C35: a request creates at most one submission record, and only as the last of its
\* steps: the image-host uploads start only on a configured instance, performFaceSwap
\* is called only after the two image uploads, the result is uploaded only after
\* performFaceSwap resolved, the record is saved only after the three uploads; a
\* request that has a record has passed every step without an error and is the only
\* kind that gets the success page; a request that was refused or threw has no record
\* and no success page.
C35_RecordOnlyAfterEveryStep ==
    /\ sub.records <= 1
    /\ sub.hostUploads >= 1 => isConfigured(config)
    /\ sub.jobs = 1 => sub.hostUploads >= 2
    /\ sub.hostUploads = 3 => sub.jobs = 1 /\ jout[SubmissionJob].state = "resolved"
    /\ sub.pc = "saving" => sub.hostUploads = 3 /\ sub.thrown = NoError
    /\ sub.records = 1 =>
          /\ sub.hostUploads = 3 /\ sub.jobs = 1
          /\ jout[SubmissionJob].state = "resolved"
          /\ sub.thrown = NoError
    /\ (sub.status = 200 \/ sub.swappedImage # None) => sub.records = 1
    /\ (sub.thrown # NoError \/ sub.status = 400) =>
          sub.records = 0 /\ sub.status # 200 /\ sub.swappedImage = None

C35_Witness ==
    /\ sub.pc = "responded" /\ sub.status = 200 /\ sub.records = 1
    /\ sub.hostUploads = 3 /\ sub.jobs = 1 /\ jpc[SubmissionJob] = "resolved"

\* C36: when a request that reached the handler has its response, whatever the
\* status, none of its uploaded temp files is left on the local disk.
C36_TempFilesGoneAtResponse ==
    sub.pc = "responded" => sub.disk = 0

\* the handler has returned or thrown: its promise is settled
HandlerEnded == sub.pc \in {"responded", "rejected", "unanswered"}

\* C37: a request is never answered twice, and once the handler has ended, whichever
\* step failed, the request has been answered exactly once.
C37_ExactlyOneResponse ==
    /\ sub.responses <= 1
    /\ HandlerEnded => sub.responses = 1

CountersOf(st) == <<st.totalRequests, st.successfulSwaps, st.failedSwaps>>

\* the job issues its face-swap submission in this step: requestFaceSwap is entered
SubmissionIssued(j) == calls'[j].submit = calls[j].submit + 1

\* C39: a step in which isConfigured, testConnection or getStats returns, or in which
\* the caller writes to the object getStats returned, changes no counter; a step of an
\* image's processImage, getUploadUrl or uploadImageToS3 call, successful or failed,
\* changes no counter but for the totalRequests++ of the requestFaceSwap call that
\* starts in the same step when the second image is done; a step of pollFaceSwapStatus
\* leaves totalRequests unchanged; a requestFaceSwap call that succeeds adds one to
\* totalRequests when it is entered and changes nothing when it is answered.
C39_FrameConditions ==
    [][/\ ret' # ret => stats' = stats
       /\ \A j \in Jobs :
            /\ img'[j] # img[j] =>
                  /\ stats'.successfulSwaps = stats.successfulSwaps
                  /\ stats'.failedSwaps = stats.failedSwaps
                  /\ stats'.averageProcessingTime = stats.averageProcessingTime
                  /\ stats'.totalRequests =
                        stats.totalRequests + (IF SubmissionIssued(j) THEN 1 ELSE 0)
            /\ (jpc[j] \in {"status", "sleep"} /\ jpc'[j] # jpc[j])
                  => stats'.totalRequests = stats.totalRequests
            /\ Answered(j) => stats'.totalRequests = stats.totalRequests
            /\ (jpc[j] = "submit" /\ jpc'[j] = "status") => stats' = stats
      ]_vars

C39_Witness ==
    /\ ret.op = "getStats" /\ ret.object.written
    /\ ret.object.totalRequests = 2 /\ ret.object.successRate = 10000
    /\ CountersOf(stats) = <<1, 1, 0>>
    /\ jpc["j1"] = "resolved"

====
